---- MODULE Spec2Model ----
(***************************************************************************)
(* Verification model of the genomic visualization data-assembly layer of  *)
(* the OFC SV browser: the chromosome registry (get_chromosome_size), the  *)
(* population track builders, the Circos data assembler (get_circos_data)  *)
(* and the gene interaction resolver.                                      *)
(*                                                                         *)
(* Python strings are sequences of one-character strings, so that prefix   *)
(* stripping, case folding, trimming, splitting and parsing are computed   *)
(* as the code computes them.  A Python value that is not a string is the  *)
(* pair <<"#obj", tag>>, which no string equals.                           *)
(***************************************************************************)
EXTENDS Integers, Sequences, FiniteSets, TLC

VARIABLES
    regIn,      \* registry: the argument of get_chromosome_size
    regOut,     \* registry: the outcome of the call
    svTable,    \* store: the rows of phenotype_svs
    bgTable,    \* store: the rows of background_svs
    dbUp,       \* store: whether connecting and querying succeeds
    trkCall,    \* track builders: the call made (builder and arguments)
    trkRows,    \* track builders: the rows cursor.fetchall() returned
    trkOut,     \* track builders: the track returned
    popOut,     \* track builders: what create_population_tracks returned
    genes,      \* store: the rows of genes, in rowid order
    table,      \* side table: the rows of assets/table.csv
    csvOk,      \* side table: whether pd.read_csv succeeds
    sel,        \* the chromosome selection passed in (a list)
    resOut,     \* resolver: the outcome of generate_gene_interactions_data
    dataType,   \* assembler: the data_type requested
    rng,        \* assembler: the stream np.random draws from
    circOut,    \* assembler: the outcome of get_circos_data
    uiOut,      \* page: what update_circos_visualization returned
    circAgain,  \* assembler: the outcome of a second, identical call
    hlpCall,    \* helpers: the helper called and its arguments
    hlpOut,     \* helpers: the list the helper returned
    connStore,  \* connections: how the store answers connect and execute
    netGenes,   \* connections: the rows "SELECT gene, Gene FROM genes" yields
    connCall,   \* connections: the function called and its arguments
    connOut,    \* connections: connect/close calls made, and the value returned
    svOut,      \* simulated SVs: the outcome of generate_sv_data
    navUrl,     \* navigation: the pathname of dcc.Location 'url'
    navGene,    \* navigation: the data of dcc.Store 'selected-gene'
    navTab,     \* navigation: the value of dcc.Tabs 'main-tabs'
    navPage,    \* navigation: the children of 'page-content'
    navPending, \* navigation: the callbacks requested and not yet run
    navLast,    \* navigation: the callback that ran last
    navHist     \* navigation: the gene stored since the latest tab click

regVars == <<regIn, regOut>>

trkVars == <<svTable, bgTable, dbUp, trkCall, trkRows, trkOut, popOut>>

resVars == <<genes, table, csvOk, sel, resOut>>

circVars == <<dataType, rng, circOut, uiOut, circAgain>>

hlpVars == <<hlpCall, hlpOut>>

connVars == <<connStore, netGenes, connCall, connOut>>

svVars == <<svOut>>

navVars == <<navUrl, navGene, navTab, navPage, navPending, navLast, navHist>>

vars == <<regIn, regOut, svTable, bgTable, dbUp, trkCall, trkRows, trkOut, popOut,
          genes, table, csvOk, sel, resOut, dataType, rng, circOut, uiOut,
          circAgain, hlpCall, hlpOut, connStore, netGenes, connCall, connOut,
          svOut, navUrl, navGene, navTab, navPage, navPending, navLast,
          navHist>>

----------------------------------------------------------------------------
(* Python str helpers *)

LowerLetters == <<"a","b","c","d","e","f","g","h","i","j","k","l","m",
                  "n","o","p","q","r","s","t","u","v","w","x","y","z">>

UpperLetters == <<"A","B","C","D","E","F","G","H","I","J","K","L","M",
                  "N","O","P","Q","R","S","T","U","V","W","X","Y","Z">>

DigitChars == <<"0","1","2","3","4","5","6","7","8","9">>

\* str.lower() on one character
LowerChar(c) ==
    IF \E i \in 1..Len(UpperLetters) : UpperLetters[i] = c
    THEN LowerLetters[CHOOSE i \in 1..Len(UpperLetters) : UpperLetters[i] = c]
    ELSE c

\* str.upper() on one character
UpperChar(c) ==
    IF \E i \in 1..Len(LowerLetters) : LowerLetters[i] = c
    THEN UpperLetters[CHOOSE i \in 1..Len(LowerLetters) : LowerLetters[i] = c]
    ELSE c

str_lower(s) == [i \in 1..Len(s) |-> LowerChar(s[i])]

str_upper(s) == [i \in 1..Len(s) |-> UpperChar(s[i])]

IsSpace(c) == c = " "

\* str.strip(): drop leading and trailing whitespace
str_strip(s) ==
    IF \A i \in 1..Len(s) : IsSpace(s[i])
    THEN <<>>
    ELSE LET first == CHOOSE i \in 1..Len(s) :
                          /\ ~IsSpace(s[i])
                          /\ \A j \in 1..(i-1) : IsSpace(s[j])
             last  == CHOOSE i \in 1..Len(s) :
                          /\ ~IsSpace(s[i])
                          /\ \A j \in (i+1)..Len(s) : IsSpace(s[j])
         IN  SubSeq(s, first, last)

\* str.startswith(p)
str_startswith(s, p) == Len(s) >= Len(p) /\ SubSeq(s, 1, Len(p)) = p

\* s[n:]
str_from(s, n) == SubSeq(s, n + 1, Len(s))

\* isinstance(v, str)
IsStr(v) == ~(Len(v) = 2 /\ v[1] = "#obj")

NonStr(tag) == <<"#obj", tag>>

chr == <<"c","h","r">>

CHR1 == <<"C","H","R","1">>

----------------------------------------------------------------------------
(* The state of a component before it is called.  Each specification below
   exercises one component and leaves the others in this state. *)

NotCalled == [called |-> FALSE, raised |-> FALSE, value |-> 0]

RegistryIdle ==
    /\ regIn = <<>>
    /\ regOut = NotCalled

NoCall == [builder |-> "none"]

NoTrack == [name |-> "none"]

NoTracks == [called |-> FALSE, tracks |-> <<>>]

TracksIdle ==
    /\ svTable = {}
    /\ bgTable = {}
    /\ dbUp = TRUE
    /\ trkCall = NoCall
    /\ trkRows = <<>>
    /\ trkOut = NoTrack
    /\ popOut = NoTracks

NoHelper == [fn |-> "none"]

HelpersIdle ==
    /\ hlpCall = NoHelper
    /\ hlpOut = <<>>

NoConnection == [called |-> FALSE, events |-> <<>>, value |-> <<>>]

ConnectionsIdle ==
    /\ connStore = "ok"
    /\ netGenes = <<>>
    /\ connCall = [fn |-> "none"]
    /\ connOut = NoConnection

NoSvData == [called |-> FALSE, raised |-> FALSE, chord_data |-> <<>>]

SvIdle == svOut = NoSvData

\* Python's None where the other values are dicts
NoneData == [py |-> "None"]

NoPage == [page |-> "none"]

NavIdle ==
    /\ navUrl = "/"
    /\ navGene = NoneData
    /\ navTab = "/summary"
    /\ navPage = NoPage
    /\ navPending = {}
    /\ navLast = "none"
    /\ navHist = NoneData

NoResult == [called |-> FALSE, chord_data |-> <<>>, error |-> FALSE]

ResolverIdle ==
    /\ genes = <<>>
    /\ table = <<>>
    /\ csvOk = TRUE
    /\ sel = <<>>
    /\ resOut = NoResult

NoCircos == [called |-> FALSE, raised |-> FALSE, exception |-> "",
             layout |-> <<>>, tracks |-> <<>>]

NoComponent == [called |-> FALSE, kind |-> "none"]

CircosIdle ==
    /\ dataType = "none"
    /\ rng = <<0>>
    /\ circOut = NoCircos
    /\ uiOut = NoComponent
    /\ circAgain = NoCircos

----------------------------------------------------------------------------
(* Chromosome registry: utils/database.py get_chromosome_size *)

sizes ==
    (<<"1">> :> 248956422) @@ (<<"2">> :> 242193529) @@
    (<<"3">> :> 198295559) @@ (<<"4">> :> 190214555) @@
    (<<"5">> :> 181538259) @@ (<<"6">> :> 170805979) @@
    (<<"7">> :> 159345973) @@ (<<"8">> :> 145138636) @@
    (<<"9">> :> 138394717) @@ (<<"1","0">> :> 133797422) @@
    (<<"1","1">> :> 135086622) @@ (<<"1","2">> :> 133275309) @@
    (<<"1","3">> :> 114364328) @@ (<<"1","4">> :> 107043718) @@
    (<<"1","5">> :> 101991189) @@ (<<"1","6">> :> 90338345) @@
    (<<"1","7">> :> 83257441) @@ (<<"1","8">> :> 80373285) @@
    (<<"1","9">> :> 58617616) @@ (<<"2","0">> :> 64444167) @@
    (<<"2","1">> :> 46709983) @@ (<<"2","2">> :> 50818468) @@
    (<<"X">> :> 156040895) @@ (<<"Y">> :> 57227415) @@
    (<<"M","T">> :> 16569) @@ (<<"M">> :> 16569)

DefaultSize == 100000000

chrom_normalized_CaseSensitive(chrom) ==
    IF str_startswith(chrom, chr) THEN str_from(chrom, 3) ELSE chrom

\* chrom_normalized: the first three characters are dropped when they read
\* "chr" in any case
chrom_normalized(chrom) ==
    IF str_startswith(str_lower(chrom), chr) THEN str_from(chrom, 3) ELSE chrom

\* formats_to_try, in the order the code tries them
formats_to_try(n) ==
    << n, str_upper(n), str_lower(n),
       str_strip(n), str_upper(str_strip(n)), str_lower(str_strip(n)) >>

Normal(v) == [raised |-> FALSE, value |-> v]

get_chromosome_size_NoGuard(chrom) ==
    LET n == chrom_normalized(chrom)
        f == formats_to_try(n)
    IN  IF ~IsStr(chrom)
        THEN [raised |-> TRUE, value |-> 0]
        ELSE IF \E i \in 1..Len(f) : f[i] \in DOMAIN sizes
        THEN Normal(sizes[f[CHOOSE i \in 1..Len(f) :
                              /\ f[i] \in DOMAIN sizes
                              /\ \A j \in 1..(i-1) : f[j] \notin DOMAIN sizes]])
        ELSE Normal(DefaultSize)

\* The outcome of get_chromosome_size(chrom): the returned size, and whether
\* the call raised.  No statement of the function raises on a string or on
\* a non-string argument.
get_chromosome_size(chrom) ==
    IF IsStr(chrom)
    THEN LET n == chrom_normalized(chrom)
             f == formats_to_try(n)
         IN  IF \E i \in 1..Len(f) : f[i] \in DOMAIN sizes
             THEN Normal(sizes[f[CHOOSE i \in 1..Len(f) :
                                   /\ f[i] \in DOMAIN sizes
                                   /\ \A j \in 1..(i-1) : f[j] \notin DOMAIN sizes]])
             ELSE IF str_upper(n) \in {<<"M">>, <<"M","T">>}
             THEN Normal(sizes[<<"M","T">>])
             ELSE Normal(DefaultSize)
    ELSE Normal(DefaultSize)

\* the returned integer
size_of(chrom) == get_chromosome_size(chrom).value


----------------------------------------------------------------------------
(* Relational store read by the track builders: pages/population_svs.py *)

\* phenotype(bam_id PK, gender, child, affected, proband)
phenotype ==
    ("m1" :> [gender |-> "F", child |-> 0, affected |-> 0, proband |-> 0]) @@
    ("f1" :> [gender |-> "M", child |-> 0, affected |-> 1, proband |-> 0]) @@
    ("c1" :> [gender |-> "F", child |-> 1, affected |-> 1, proband |-> 0]) @@
    ("c2" :> [gender |-> "M", child |-> 1, affected |-> 0, proband |-> 1]) @@
    ("c3" :> [gender |-> "F", child |-> 1, affected |-> 0, proband |-> 0])

\* (type, start, end) of an SV record; ShapeA and ShapeB start at the same
\* position with different type and end
ShapeA == [type |-> "DEL", start |-> 10, end |-> 30]
ShapeB == [type |-> "DUP", start |-> 10, end |-> 40]
ShapeC == [type |-> "INV", start |-> 20, end |-> 25]

SvRow(sample, id, shape, chrom) ==
    [sample |-> sample, id |-> id, type |-> shape.type, chrom |-> chrom,
     start |-> shape.start, end |-> shape.end]

BgRow(id, shape, chrom, pop) ==
    [id |-> id, type |-> shape.type, chrom |-> chrom,
     start |-> shape.start, end |-> shape.end,
     pop_code |-> pop.pop_code, superpop_code |-> pop.superpop_code,
     freq |-> pop.freq]

\* NULL and the empty string are falsy
Null == "NULL"
Truthy(v) == v # Null /\ v # ""

PopCEU == [pop_code |-> "CEU", superpop_code |-> "EUR", freq |-> "0.05"]
PopYRI == [pop_code |-> "YRI", superpop_code |-> "AFR", freq |-> "0.20"]
PopNone == [pop_code |-> Null, superpop_code |-> "", freq |-> Null]

SvRowPool ==
    {SvRow("m1", id, sh, <<"1">>) :
        id \in {"sv1", "sv2"}, sh \in {ShapeA, ShapeB, ShapeC}}
    \cup {SvRow("f1", "sv1", sh, <<"1">>) : sh \in {ShapeA, ShapeB}}
    \cup {SvRow("c1", "sv1", sh, <<"1">>) : sh \in {ShapeA, ShapeB, ShapeC}}
    \cup {SvRow("c2", "sv1", sh, <<"1">>) : sh \in {ShapeA, ShapeB}}
    \cup {SvRow("c3", "sv1", ShapeA, <<"1">>),
          SvRow("c1", "sv2", ShapeA, <<"1">>),
          SvRow("m1", "sv1", ShapeA, chr \o <<"1">>),
          SvRow("m1", "sv2", ShapeB, CHR1),
          SvRow("c1", "sv2", ShapeB, CHR1),
          SvRow("x9", "sv1", ShapeA, <<"1">>)}

BgRowPool ==
    {BgRow("sv1", sh, <<"1">>, pop) :
        sh \in {ShapeA, ShapeB}, pop \in {PopCEU, PopYRI}}
    \cup {BgRow("sv2", ShapeA, <<"1">>, PopCEU),
          BgRow("sv1", ShapeC, <<"1">>, PopNone),
          BgRow("sv1", ShapeA, chr \o <<"1">>, PopCEU),
          BgRow("sv2", ShapeB, CHR1, PopYRI)}

MaxRows == 3

SubsetsUpTo(S, n) == {T \in SUBSET S : Cardinality(T) <= n}

----------------------------------------------------------------------------
(* SQL evaluation *)

\* ORDER BY start: every order of the rows that ascends in start; the order
\* of rows with equal start is not determined by the query
RECURSIVE OrderByStart(_)
OrderByStart(S) ==
    IF S = {} THEN {<<>>}
    ELSE UNION {{<<r>> \o t : t \in OrderByStart(S \ {r})} :
                r \in {x \in S : \A y \in S : x.start <= y.start}}

\* phenotype_svs ps JOIN phenotype p ON ps.sample = p.bam_id
Joined(r) ==
    [sample |-> r.sample, id |-> r.id, type |-> r.type, chrom |-> r.chrom,
     start |-> r.start, end |-> r.end,
     gender |-> phenotype[r.sample].gender,
     child |-> phenotype[r.sample].child,
     affected |-> phenotype[r.sample].affected,
     proband |-> phenotype[r.sample].proband]

JoinPhenotype(T) == {Joined(r) : r \in {x \in T : x.sample \in DOMAIN phenotype}}

\* the parent query on normalized names: "1", "chr1" and "CHR1" alike
ParentQuery_Normalized(T, chrom, gender) ==
    {r \in JoinPhenotype(T) :
        /\ str_upper(chrom_normalized(r.chrom)) = str_upper(chrom_normalized(chrom))
        /\ r.gender = gender /\ r.child = 0}

\* WHERE ps.chrom = ? AND p.gender = ? AND p.child = 0
ParentQuery(T, chrom, gender) ==
    {r \in JoinPhenotype(T) : r.chrom = chrom /\ r.gender = gender /\ r.child = 0}

\* WHERE ps.chrom = ? AND p.child = 1
ChildQuery(T, chrom) ==
    {r \in JoinPhenotype(T) : r.chrom = chrom /\ r.child = 1}

\* WHERE chrom = ?
BackgroundQuery(T, chrom) == {r \in T : r.chrom = chrom}

----------------------------------------------------------------------------
(* Track builders *)

EmptyAcc ==
    [order |-> <<>>, sv_details |-> <<>>, sv_counts |-> <<>>, sv_extra |-> <<>>]

\* dictionaries are functions; d[k] = v
Put(d, k, v) == [x \in (DOMAIN d) \cup {k} |-> IF x = k THEN v ELSE d[x]]

details_of(row) ==
    [chr |-> row.chrom, start |-> row.start, end |-> row.end, type |-> row.type]

store_details_Last(acc, row) == Put(acc.sv_details, row.id, details_of(row))

\* "Store details for the first occurrence"
store_details(acc, row) ==
    IF row.id \in DOMAIN acc.sv_details
    THEN acc.sv_details
    ELSE Put(acc.sv_details, row.id, details_of(row))

\* "Increment count"
count(acc, row) ==
    IF row.id \in DOMAIN acc.sv_counts
    THEN Put(acc.sv_counts, row.id, acc.sv_counts[row.id] + 1)
    ELSE Put(acc.sv_counts, row.id, 1)

\* the status labels of one child row
status_of(row) ==
    (IF row.affected = 1 THEN {"Affected"} ELSE {})
    \cup (IF row.proband = 1 THEN {"Proband"} ELSE {})

\* the population strings of one background row
pop_info_of(row) ==
    (IF Truthy(row.pop_code) THEN {<<"Pop", row.pop_code>>} ELSE {})
    \cup (IF Truthy(row.superpop_code)
          THEN {<<"SuperPop", row.superpop_code>>} ELSE {})
    \cup (IF Truthy(row.freq) THEN {<<"Freq", row.freq>>} ELSE {})

\* the labels a row adds to sv_statuses (child) or sv_pop_info (background)
extra_of(builder, row) ==
    CASE builder = "child" -> status_of(row)
      [] builder = "background" -> pop_info_of(row)
      [] OTHER -> {}

\* the labels of the last row of an id replace those of the rows before it
collect_Last(builder, acc, row) ==
    Put(acc.sv_extra, row.id, extra_of(builder, row))

collect(builder, acc, row) ==
    IF extra_of(builder, row) = {}
    THEN acc.sv_extra
    ELSE Put(acc.sv_extra, row.id,
             (IF row.id \in DOMAIN acc.sv_extra THEN acc.sv_extra[row.id] ELSE {})
             \cup extra_of(builder, row))

\* one iteration of "for row in cursor.fetchall()"
process_row(builder, acc, row) ==
    [order |-> IF row.id \in DOMAIN acc.sv_counts
               THEN acc.order ELSE Append(acc.order, row.id),
     sv_details |-> store_details(acc, row),
     sv_counts |-> count(acc, row),
     sv_extra |-> collect(builder, acc, row)]

RECURSIVE process_rows(_, _, _)
process_rows(builder, acc, rows) ==
    IF rows = <<>> THEN acc
    ELSE process_rows(builder, process_row(builder, acc, Head(rows)), Tail(rows))

\* the feature of one SV id; the description is kept as its parts
feature_of(acc, sv_id) ==
    LET details == acc.sv_details[sv_id]
    IN  [chr |-> details.chr, start |-> details.start, end |-> details.end,
         name |-> sv_id, type |-> details.type,
         description |->
            [Type |-> details.type,
             Extra |-> IF sv_id \in DOMAIN acc.sv_extra
                       THEN acc.sv_extra[sv_id] ELSE {},
             Count |-> acc.sv_counts[sv_id],
             Size |-> details.end - details.start]]

\* "for sv_id, count in sv_counts.items()": dictionary insertion order
features_of(acc) == [i \in 1..Len(acc.order) |-> feature_of(acc, acc.order[i])]

track_name(call) ==
    CASE call.builder = "parent" -> call.name
      [] call.builder = "child" -> "Children (Combined)"
      [] call.builder = "background" -> "Background Reference SVs"

track_color(call) ==
    CASE call.builder = "parent" ->
            (IF call.gender = "F" THEN "#CC3366" ELSE "#3366CC")
      [] call.builder = "child" -> "#02254B"
      [] call.builder = "background" -> "#669900"

make_track(call, features) ==
    [name |-> track_name(call), sourceType |-> "annotation", format |-> "bed",
     features |-> features, displayMode |-> "EXPANDED",
     color |-> track_color(call), height |-> 100]

\* an except block with a track of its own
error_track_Generic(call) ==
    [name |-> "Error", sourceType |-> "annotation", format |-> "bed",
     features |-> <<>>, displayMode |-> "COLLAPSED", color |-> "#999999",
     height |-> 50]

\* the track of the except block: create_parent_track, create_child_track
\* and create_background_track each spell it out again
error_track(call) ==
    CASE call.builder = "parent" ->
            [name |-> call.name, sourceType |-> "annotation", format |-> "bed",
             features |-> <<>>, displayMode |-> "EXPANDED",
             color |-> IF call.gender = "F" THEN "#CC3366" ELSE "#3366CC",
             height |-> 100]
      [] call.builder = "child" ->
            [name |-> "Children (Combined)", sourceType |-> "annotation",
             format |-> "bed", features |-> <<>>, displayMode |-> "EXPANDED",
             color |-> "#02254B", height |-> 100]
      [] call.builder = "background" ->
            [name |-> "Background Reference SVs", sourceType |-> "annotation",
             format |-> "bed", features |-> <<>>, displayMode |-> "EXPANDED",
             color |-> "#669900", height |-> 100]

\* what a builder returns: the try block's track for the fetched rows, or the
\* except block's track when connecting or querying raised
builder_track(call, up, rows) ==
    IF up
    THEN make_track(call, features_of(process_rows(call.builder, EmptyAcc, rows)))
    ELSE error_track(call)

\* the rows the builder's query selects
query_of(call) ==
    CASE call.builder = "parent" -> ParentQuery(svTable, call.chrom, call.gender)
      [] call.builder = "child" -> ChildQuery(svTable, call.chrom)
      [] call.builder = "background" -> BackgroundQuery(bgTable, call.chrom)

TrackChroms == {<<"1">>, chr \o <<"1">>}

InitTracks ==
    /\ RegistryIdle
    /\ HelpersIdle
    /\ NavIdle
    /\ SvIdle
    /\ ConnectionsIdle
    /\ ResolverIdle
    /\ CircosIdle
    /\ \E n \in 0..MaxRows :
          /\ svTable \in SubsetsUpTo(SvRowPool, n)
          /\ bgTable \in SubsetsUpTo(BgRowPool, MaxRows - n)
    /\ dbUp \in BOOLEAN
    /\ trkCall = NoCall
    /\ trkRows = <<>>
    /\ trkOut = NoTrack
    /\ popOut = NoTracks

\* the body of a builder: the try block, or the except block when the store
\* is unavailable
BuildTrack(call) ==
    /\ trkCall = NoCall
    /\ ~popOut.called
    /\ trkCall' = call
    /\ IF dbUp
       THEN \E rows \in OrderByStart(query_of(call)) :
               /\ trkRows' = rows
               /\ trkOut' = builder_track(call, TRUE, rows)
       ELSE /\ trkRows' = <<>>
            /\ trkOut' = builder_track(call, FALSE, <<>>)
    /\ UNCHANGED <<svTable, bgTable, dbUp, popOut>>
    /\ UNCHANGED regVars
    /\ UNCHANGED hlpVars
    /\ UNCHANGED resVars
    /\ UNCHANGED circVars
    /\ UNCHANGED connVars
    /\ UNCHANGED svVars
    /\ UNCHANGED navVars

CreateParentTrack ==
    \E chrom \in TrackChroms :
       \/ BuildTrack([builder |-> "parent", chrom |-> chrom, gender |-> "F",
                      name |-> "Mothers (Combined)"])
       \/ BuildTrack([builder |-> "parent", chrom |-> chrom, gender |-> "M",
                      name |-> "Fathers (Combined)"])

CreateChildTrack ==
    \E chrom \in TrackChroms :
       BuildTrack([builder |-> "child", chrom |-> chrom])

CreateBackgroundTrack ==
    \E chrom \in TrackChroms :
       BuildTrack([builder |-> "background", chrom |-> chrom])

MotherCall(chrom) ==
    [builder |-> "parent", chrom |-> chrom, gender |-> "F",
     name |-> "Mothers (Combined)"]

FatherCall(chrom) ==
    [builder |-> "parent", chrom |-> chrom, gender |-> "M",
     name |-> "Fathers (Combined)"]

ChildCall(chrom) == [builder |-> "child", chrom |-> chrom]

BackgroundCall(chrom) == [builder |-> "background", chrom |-> chrom]

\* create_population_tracks(chrom): the four builders in turn, each on its
\* own connection.  With the store down, any non-empty set of the four
\* calls fails.
CreatePopulationTracks ==
    /\ trkCall = NoCall
    /\ ~popOut.called
    /\ \E chrom \in TrackChroms, down \in SUBSET (1..4) :
          /\ dbUp <=> down = {}
          /\ \E r1 \in OrderByStart(query_of(MotherCall(chrom))),
                r2 \in OrderByStart(query_of(FatherCall(chrom))),
                r3 \in OrderByStart(query_of(ChildCall(chrom))),
                r4 \in OrderByStart(query_of(BackgroundCall(chrom))) :
                popOut' = [called |-> TRUE, chrom |-> chrom, down |-> down,
                           tracks |->
                             << builder_track(MotherCall(chrom), 1 \notin down, r1),
                                builder_track(FatherCall(chrom), 2 \notin down, r2),
                                builder_track(ChildCall(chrom), 3 \notin down, r3),
                                builder_track(BackgroundCall(chrom), 4 \notin down, r4) >>]
    /\ UNCHANGED <<svTable, bgTable, dbUp, trkCall, trkRows, trkOut>>
    /\ UNCHANGED regVars
    /\ UNCHANGED hlpVars
    /\ UNCHANGED resVars
    /\ UNCHANGED circVars
    /\ UNCHANGED connVars
    /\ UNCHANGED svVars
    /\ UNCHANGED navVars

NextTracks ==
    \/ CreateParentTrack
    \/ CreateChildTrack
    \/ CreateBackgroundTrack
    \/ CreatePopulationTracks

SpecTracks == InitTracks /\ [][NextTracks]_vars

----------------------------------------------------------------------------
(* More Python str helpers and SQLite text comparison *)

\* sub in s
str_contains(s, sub) ==
    \E i \in 1..(Len(s) - Len(sub) + 1) : SubSeq(s, i, i + Len(sub) - 1) = sub

\* s.split(sep) for a one-character separator
RECURSIVE str_split(_, _)
str_split(s, sep) ==
    IF \A i \in 1..Len(s) : s[i] # sep
    THEN <<s>>
    ELSE LET k == CHOOSE i \in 1..Len(s) :
                      s[i] = sep /\ \A j \in 1..(i-1) : s[j] # sep
         IN  <<SubSeq(s, 1, k - 1)>> \o str_split(SubSeq(s, k + 1, Len(s)), sep)

\* s.split()[0]: the first whitespace-delimited word of a string that has one
first_word(s) ==
    LET t == str_strip(s)
    IN  IF \A i \in 1..Len(t) : ~IsSpace(t[i])
        THEN t
        ELSE SubSeq(t, 1, (CHOOSE i \in 1..Len(t) :
                              IsSpace(t[i]) /\ \A j \in 1..(i-1) : ~IsSpace(t[j])) - 1)

\* SQLite's  text LIKE pattern : "%" matches any run of characters, "_" any
\* one character, and letters match without regard to case
RECURSIVE Like(_, _)
Like(text, pattern) ==
    IF pattern = <<>> THEN text = <<>>
    ELSE IF Head(pattern) = "%"
    THEN \E k \in 0..Len(text) : Like(SubSeq(text, k + 1, Len(text)), Tail(pattern))
    ELSE /\ text # <<>>
         /\ \/ Head(pattern) = "_"
            \/ LowerChar(Head(pattern)) = LowerChar(Head(text))
         /\ Like(Tail(text), Tail(pattern))

\* x in list
InList(x, list) == \E i \in 1..Len(list) : list[i] = x

\* SelectSeq with a two-argument test
RECURSIVE Filter(_, _, _)
Filter(rows, Test(_, _), arg) ==
    IF rows = <<>> THEN <<>>
    ELSE (IF Test(Head(rows), arg) THEN <<Head(rows)>> ELSE <<>>)
         \o Filter(Tail(rows), Test, arg)

----------------------------------------------------------------------------
(* Gene interaction resolver: utils/database.py generate_gene_interactions_data *)

UCONN_NAVY == "#02254B"
UCONN_LIGHT_BLUE == "#9ECEEB"

family == <<"f","a","m","i","l","y">>

\* pd.isna(cell): an empty cell of the side table
NaN == NonStr("nan")

padding == 2000000

Max(a, b) == IF a >= b THEN a ELSE b

start_padded_Unclamped(gene) == gene.x1 - padding

start_padded(gene) == Max(0, gene.x1 - padding)

end_padded(gene) == gene.x2 + padding

IdIs(gene, id) == gene.id = id

IdLike_CaseSensitive(gene, pattern) ==
    /\ Len(pattern) >= 1
    /\ str_startswith(gene.id, SubSeq(pattern, 1, Len(pattern) - 1))

IdLike(gene, pattern) == Like(gene.id, pattern)

\* SELECT id, chrom, x1, x2 FROM genes WHERE id = ?  (rows in rowid order)
select_by_id(id) == Filter(genes, IdIs, id)

\* SELECT id, chrom, x1, x2 FROM genes WHERE id LIKE ?
select_like(pattern) == Filter(genes, IdLike, pattern)

chord(source_gene, target_gene, color) ==
    [source |-> [id |-> source_gene.chrom,
                 start |-> start_padded(source_gene),
                 end |-> end_padded(source_gene),
                 gene_id |-> source_gene.id],
     target |-> [id |-> target_gene.chrom,
                 start |-> start_padded(target_gene),
                 end |-> end_padded(target_gene),
                 gene_id |-> target_gene.id],
     color |-> color,
     value |-> 1,
     source_gene |-> source_gene.id,
     target_gene |-> target_gene.id]

\* a row of genes with a NULL coordinate has no x1 or no x2 field
has_coordinates(g) == {"x1", "x2"} \subseteq DOMAIN g

\* the TypeError of "None - padding", in place of the chord that was to be
\* appended
TypeErrorRaised == [raised |-> "TypeError"]

IsRaised(item) == "raised" \in DOMAIN item

\* chord_data.append({...}) after the padding arithmetic, or the exception
\* the arithmetic raises
append_chord(source_gene, target_gene, color) ==
    IF has_coordinates(source_gene) /\ has_coordinates(target_gene)
    THEN <<chord(source_gene, target_gene, color)>>
    ELSE <<TypeErrorRaised>>

target_selected_Any(g, chromosomes) == TRUE

\* "Skip if target chromosome not in selected chromosomes"
target_selected(g, chromosomes) == InList(g.chrom, chromosomes)

\* the chords of one family token: one per selected row the LIKE query returns
RECURSIVE family_chords(_, _, _)
family_chords(source_gene, family_genes, chromosomes) ==
    IF family_genes = <<>> THEN <<>>
    ELSE (IF target_selected(Head(family_genes), chromosomes)
          THEN append_chord(source_gene, Head(family_genes), UCONN_LIGHT_BLUE)
          ELSE <<>>)
         \o family_chords(source_gene, Tail(family_genes), chromosomes)

\* the chords of one direct partner token: cursor.fetchone()
direct_chords(source_gene, partner, chromosomes) ==
    LET found == select_by_id(partner)
    IN  IF found = <<>> THEN <<>>
        ELSE IF ~target_selected(found[1], chromosomes) THEN <<>>
        ELSE append_chord(source_gene, found[1], UCONN_NAVY)

\* "family" in partner.lower()
is_family(partner) == str_contains(str_lower(partner), family)

\* the body of "for partner in partners"
partner_chords(source_gene, partner, chromosomes) ==
    IF is_family(partner)
    THEN family_chords(source_gene,
                       select_like(Append(first_word(partner), "%")),
                       chromosomes)
    ELSE direct_chords(source_gene, partner, chromosomes)

RECURSIVE partners_chords(_, _, _)
partners_chords(source_gene, partners, chromosomes) ==
    IF partners = <<>> THEN <<>>
    ELSE partner_chords(source_gene, Head(partners), chromosomes)
         \o partners_chords(source_gene, Tail(partners), chromosomes)

\* partners = [p.strip() for p in interaction_partners.split(',')]
parse_partners(interaction_partners) ==
    LET parts == str_split(interaction_partners, ",")
    IN  [i \in 1..Len(parts) |-> str_strip(parts[i])]

\* pd.isna(...) or ... == '-' or not ...
no_partners(interaction_partners) ==
    \/ interaction_partners = NaN
    \/ interaction_partners = <<"-">>
    \/ interaction_partners = <<>>

source_selected_Any(g, chromosomes) == TRUE

\* "Skip if source chromosome not in selected chromosomes"
source_selected(g, chromosomes) == InList(g.chrom, chromosomes)

\* the body of "for index, row in table_df.iterrows()"
row_chords(row, chromosomes) ==
    IF no_partners(row.partners) THEN <<>>
    ELSE LET found == select_by_id(row.Gene)
         IN  IF found = <<>> THEN <<>>
             ELSE IF ~source_selected(found[1], chromosomes) THEN <<>>
             ELSE partners_chords(found[1], parse_partners(row.partners),
                                  chromosomes)

RECURSIVE rows_chords(_, _)
rows_chords(rows, chromosomes) ==
    IF rows = <<>> THEN <<>>
    ELSE row_chords(Head(rows), chromosomes) \o rows_chords(Tail(rows), chromosomes)

\* the appended chords up to the first exception
RECURSIVE until_raised(_)
until_raised(items) ==
    IF items = <<>> THEN <<>>
    ELSE IF IsRaised(Head(items)) THEN <<>>
    ELSE <<Head(items)>> \o until_raised(Tail(items))

\* The outcome of generate_gene_interactions_data(chromosomes): the chord
\* list, and whether the except block ran.  pd.read_csv and sqlite3.connect
\* run, and raise, before any chord is appended; an exception inside the loop
\* leaves the loop, and the chords appended before it are returned.
generate_gene_interactions_data(chromosomes) ==
    IF ~csvOk \/ ~dbUp
    THEN [chord_data |-> <<>>, error |-> TRUE]
    ELSE LET items == rows_chords(table, chromosomes)
         IN  [chord_data |-> until_raised(items),
              error |-> \E i \in 1..Len(items) : IsRaised(items[i])]

----------------------------------------------------------------------------
(* Circos data assembler: utils/database.py get_circos_data *)

\* c.replace('chr', ''): every occurrence removed, left to right
RECURSIVE remove_chr(_)
remove_chr(s) ==
    IF s = <<>> THEN <<>>
    ELSE IF str_startswith(s, chr) THEN remove_chr(str_from(s, 3))
    ELSE <<Head(s)>> \o remove_chr(Tail(s))

\* str.isdigit()
str_isdigit(s) ==
    /\ s # <<>>
    /\ \A i \in 1..Len(s) : \E d \in 1..Len(DigitChars) : DigitChars[d] = s[i]

DigitValue(c) == (CHOOSE d \in 1..Len(DigitChars) : DigitChars[d] = c) - 1

\* int(s) of a string of digits
RECURSIVE str_int(_)
str_int(s) ==
    IF s = <<>> THEN 0
    ELSE 10 * str_int(SubSeq(s, 1, Len(s) - 1)) + DigitValue(s[Len(s)])

\* the key of sorted(chromosomes, key=lambda c: ...)
sort_key(c) ==
    LET r == remove_chr(c)
    IN  IF str_isdigit(r) THEN str_int(r)
        ELSE IF str_upper(r) = <<"X">> THEN 99
        ELSE IF str_upper(r) = <<"Y">> THEN 100
        ELSE 101

RemoveAt(list, i) == SubSeq(list, 1, i - 1) \o SubSeq(list, i + 1, Len(list))

\* sorted(): ascending in the key, equal keys in their input order
RECURSIVE sorted_chromosomes(_)
sorted_chromosomes(chromosomes) ==
    IF chromosomes = <<>> THEN <<>>
    ELSE LET i == CHOOSE i \in 1..Len(chromosomes) :
                      /\ \A j \in 1..Len(chromosomes) :
                            sort_key(chromosomes[i]) <= sort_key(chromosomes[j])
                      /\ \A j \in 1..(i-1) :
                            sort_key(chromosomes[j]) > sort_key(chromosomes[i])
         IN  <<chromosomes[i]>> \o sorted_chromosomes(RemoveAt(chromosomes, i))

display_label(chrom) ==
    IF str_startswith(str_lower(chrom), chr) THEN str_from(chrom, 3) ELSE chrom

layout_entry_DefaultLen(chrom) ==
    [id |-> chrom,
     label |-> <<"C","h","r"," ">> \o display_label(chrom),
     color |-> UCONN_NAVY,
     len |-> DefaultSize]

layout_entry(chrom) ==
    [id |-> chrom,
     label |-> <<"C","h","r"," ">> \o display_label(chrom),
     color |-> UCONN_NAVY,
     len |-> size_of(chrom)]

\* "for i, chrom in enumerate(sorted_chromosomes)"
layout_data(chromosomes) ==
    LET srt == sorted_chromosomes(chromosomes)
    IN  [i \in 1..Len(srt) |-> layout_entry(srt[i])]

\* np.random.randint(low, high) needs low < high, else ValueError
randint_ok(low, high) == low < high

\* draw k of np.random.randint(low, high): the stream gives the lowest value,
\* the middle value or the highest value of [low, high)
randint(k, low, high) ==
    LET d == rng[(k % Len(rng)) + 1]
    IN  CASE d = 0 -> low
          [] d = 1 -> low + ((high - low) \div 2)
          [] OTHER -> high - 1

Abs(x) == IF x < 0 THEN -x ELSE x

num_bins == 50

\* one histogram point; value is kept in tenths (value10 = 10 * value)
histogram_point(chrom, bin_size, i, k) ==
    [block_id |-> chrom,
     position |-> i * bin_size,
     value10 |-> 1000 - Abs(i - (num_bins \div 2)) * 32 + 10 * randint(k, 0, 20)]

\* the bins of one chromosome: bin_size is computed once per chromosome
histogram_bins(chrom, bin_size, k0) ==
    [x \in 1..num_bins |-> histogram_point(chrom, bin_size, x - 1, k0 + x - 1)]

RECURSIVE histogram_from(_, _, _)
histogram_from(chromosomes, c, k0) ==
    IF c > Len(chromosomes) THEN <<>>
    ELSE histogram_bins(chromosomes[c], size_of(chromosomes[c]) \div num_bins, k0)
         \o histogram_from(chromosomes, c + 1, k0 + num_bins)

\* generate_gene_density_data(chromosomes), drawing from draw k0 on; a
\* failing sqlite3.connect leaves the list empty
generate_gene_density_data(chromosomes, k0) ==
    IF ~dbUp THEN <<>> ELSE histogram_from(chromosomes, 1, k0)

\* f"{n:,}"
RECURSIVE fmt_thousands(_)
fmt_thousands(n) ==
    IF n < 1000
    THEN (IF n >= 100 THEN <<DigitChars[(n \div 100) + 1]>> ELSE <<>>)
         \o (IF n >= 10 THEN <<DigitChars[((n \div 10) % 10) + 1]>> ELSE <<>>)
         \o <<DigitChars[(n % 10) + 1]>>
    ELSE fmt_thousands(n \div 1000) \o <<",">>
         \o <<DigitChars[((n \div 100) % 10) + 1],
              DigitChars[((n \div 10) % 10) + 1],
              DigitChars[(n % 10) + 1]>>

Overlaps(g, region) ==
    /\ g.chrom = region.chrom
    /\ \/ (g.x1 <= region.start /\ g.x2 >= region.end)
       \/ (g.x1 >= region.start /\ g.x1 <= region.end)
       \/ (g.x2 >= region.start /\ g.x2 <= region.end)

\* find_gene_at_location: the longest gene overlapping the region (the first
\* such row), or a location descriptor
find_gene_at_location(chrom, start, end) ==
    LET hits == Filter(genes, Overlaps,
                       [chrom |-> chrom, start |-> start, end |-> end])
    IN  IF hits = <<>>
        THEN <<"C","h","r">> \o chrom \o <<":">> \o fmt_thousands(start)
             \o <<"-">> \o fmt_thousands(end)
        ELSE hits[CHOOSE i \in 1..Len(hits) :
                     /\ \A j \in 1..Len(hits) : hits[j].length <= hits[i].length
                     /\ \A j \in 1..(i-1) : hits[j].length < hits[i].length].id

Min(a, b) == IF a <= b THEN a ELSE b

num_connections(chromosomes) ==
    IF Len(chromosomes) < 2 THEN 0 ELSE Min(Len(chromosomes) * 3, 20)

source_idx(chromosomes, k) == randint(k, 0, Len(chromosomes))

target_idx_Any(chromosomes, k) == randint(k + 1, 0, Len(chromosomes))

\* the index the "while target_idx == source_idx" loop ends with: any index
\* other than source_idx
target_idx(chromosomes, k) ==
    (source_idx(chromosomes, k) + 1 + randint(k + 1, 0, Len(chromosomes) - 1))
        % Len(chromosomes)

\* whether the draws of one connection raise ValueError
sv_chord_raises(chromosomes, k) ==
    \/ ~randint_ok(0, size_of(chromosomes[source_idx(chromosomes, k) + 1]) - 10000000)
    \/ ~randint_ok(0, size_of(chromosomes[target_idx(chromosomes, k) + 1]) - 10000000)

\* one simulated connection, drawing from draw k on
sv_chord(chromosomes, k) ==
    LET source_chrom == chromosomes[source_idx(chromosomes, k) + 1]
        target_chrom == chromosomes[target_idx(chromosomes, k) + 1]
        source_start == randint(k + 2, 0, size_of(source_chrom) - 10000000)
        source_end == source_start + randint(k + 3, 1000000, 10000000)
        target_start == randint(k + 4, 0, size_of(target_chrom) - 10000000)
        target_end == target_start + randint(k + 5, 1000000, 10000000)
    IN  [source |-> [id |-> source_chrom, start |-> source_start, end |-> source_end],
         target |-> [id |-> target_chrom, start |-> target_start, end |-> target_end],
         color |-> UCONN_LIGHT_BLUE,
         value |-> randint(k + 6, 1, 10),
         source_gene |-> find_gene_at_location(source_chrom, source_start, source_end),
         target_gene |-> find_gene_at_location(target_chrom, target_start, target_end)]

DrawsPerChord == 7

\* generate_sv_data(chromosomes), drawing from draw k0 on.  sqlite3.Error is
\* caught; the ValueError of randint is not
generate_sv_data(chromosomes, k0) ==
    IF ~dbUp THEN [raised |-> FALSE, chord_data |-> <<>>]
    ELSE IF \E j \in 0..(num_connections(chromosomes) - 1) :
                sv_chord_raises(chromosomes, k0 + DrawsPerChord * j)
    THEN [raised |-> TRUE, chord_data |-> <<>>]
    ELSE [raised |-> FALSE,
          chord_data |-> [x \in 1..num_connections(chromosomes) |->
                             sv_chord(chromosomes, k0 + DrawsPerChord * (x - 1))]]

DrawsPerHighlight == 5

\* one region of interest of sample_comparison
highlight(chrom, k) ==
    LET size == size_of(chrom)
        start_pos == randint(k, 0, size - (size \div 5))
    IN  [block_id |-> chrom,
         start |-> start_pos,
         end |-> start_pos + randint(k + 1, size \div 10, size \div 5),
         color |-> <<randint(k + 2, 100, 255), randint(k + 3, 100, 255),
                     randint(k + 4, 100, 255)>>]

highlight_data_DropLast(srt, k0) ==
    [i \in 1..(Len(srt) - 1) |-> highlight(srt[i], k0 + DrawsPerHighlight * (i - 1))]

highlight_data(srt, k0) ==
    [i \in 1..Len(srt) |-> highlight(srt[i], k0 + DrawsPerHighlight * (i - 1))]

Track(type, data) == [type |-> type, data |-> data]

Returned(layout, tracks) ==
    [called |-> TRUE, raised |-> FALSE, exception |-> "", layout |-> layout, tracks |-> tracks]

\* str(e) of the ValueError np.random.randint raises for low >= high
ValueErrorText == "low >= high"

\* str(e) of the UnboundLocalError for tracks, as CPython 3.11 and later word
\* it
UnboundLocalErrorText ==
    "cannot access local variable 'tracks' where it is not associated with a value"

Raised(exception) ==
    [called |-> TRUE, raised |-> TRUE, exception |-> exception, layout |-> <<>>, tracks |-> <<>>]

DataTypes ==
    {"gene_density", "structural_variations", "gene_interactions",
     "sample_comparison"}

\* The outcome of get_circos_data(data_type, chromosomes): (layout_data,
\* tracks), or the exception that leaves the function
get_circos_data(data_type, chromosomes) ==
    LET n == Len(chromosomes)
        layout == layout_data(chromosomes)
    IN  CASE data_type = "gene_density" ->
                Returned(layout,
                    <<Track("HISTOGRAM", generate_gene_density_data(chromosomes, 0))>>)
          [] data_type = "structural_variations" ->
                IF generate_sv_data(chromosomes, 0).raised
                THEN Raised(ValueErrorText)
                ELSE Returned(layout,
                    <<Track("CHORDS", generate_sv_data(chromosomes, 0).chord_data)>>)
          [] data_type = "gene_interactions" ->
                Returned(layout,
                    <<Track("CHORDS",
                            generate_gene_interactions_data(chromosomes).chord_data)>>)
          [] data_type = "sample_comparison" ->
                LET k1 == n * num_bins
                    k2 == k1 + DrawsPerChord * num_connections(chromosomes)
                IN  IF generate_sv_data(chromosomes, k1).raised
                    THEN Raised(ValueErrorText)
                    ELSE Returned(layout,
                        <<Track("HIGHLIGHT",
                                highlight_data(sorted_chromosomes(chromosomes), k2)),
                          Track("CHORDS", generate_sv_data(chromosomes, k1).chord_data),
                          Track("HISTOGRAM",
                                generate_gene_density_data(chromosomes, 0))>>)
          [] OTHER -> Raised(UnboundLocalErrorText)

----------------------------------------------------------------------------
(* Circos page callback: pages/circos.py update_circos_visualization *)

Message(text, color) ==
    [called |-> TRUE, kind |-> "message", text |-> text, color |-> color,
     layout |-> <<>>, tracks |-> <<>>]

Circos(layout, tracks) ==
    [called |-> TRUE, kind |-> "circos", text |-> "", color |-> "",
     layout |-> layout, tracks |-> tracks]

\* chr_chromosomes = [f"chr{chrom}" for chrom in chromosomes]
chr_chromosomes(chromosomes) ==
    [i \in 1..Len(chromosomes) |-> chr \o chromosomes[i]]

\* item['name'] = f"{source_gene} -> {target_gene}"
with_name(item) ==
    [source |-> item.source, target |-> item.target, color |-> item.color,
     value |-> item.value, source_gene |-> item.source_gene,
     target_gene |-> item.target_gene,
     name |-> item.source_gene \o <<" ", "->", " ">> \o item.target_gene]

named_tracks(tracks) ==
    [t \in 1..Len(tracks) |->
        IF t = 1
        THEN Track(tracks[1].type,
                   [i \in 1..Len(tracks[1].data) |-> with_name(tracks[1].data[i])])
        ELSE tracks[t]]

\* the text of the first paragraph of the empty-result Div
NoInteractionsText == "No gene interaction data found for the selected chromosomes."

update_circos_visualization_NoChecks(data_type, chromosomes) ==
    LET r == get_circos_data(data_type, chr_chromosomes(chromosomes))
    IN  IF r.raised
        THEN Message("Error generating visualization: " \o r.exception, "red")
        ELSE Circos(r.layout, r.tracks)

\* the callback without its except block: the exception leaves it
update_circos_visualization_NoCatch(data_type, chromosomes) ==
    IF chromosomes = <<>>
    THEN Message("Please select at least one chromosome", "red")
    ELSE LET r == get_circos_data(data_type, chr_chromosomes(chromosomes))
         IN  IF r.raised
             THEN [called |-> TRUE, kind |-> "raised", text |-> r.exception,
                   color |-> "", layout |-> <<>>, tracks |-> <<>>]
             ELSE Circos(r.layout, r.tracks)

\* what the callback makes of the outcome r of get_circos_data: the except
\* block's message, or the statements after the call
component_of(data_type, r) ==
    IF r.raised
    THEN Message("Error generating visualization: " \o r.exception, "red")
    ELSE IF r.layout = <<>>
    THEN Message("Error: No layout data could be generated for the selected chromosomes.",
                 "red")
    ELSE IF data_type = "gene_interactions"
    THEN (IF r.tracks = <<>> \/ r.tracks[1].data = <<>>
          THEN Message(NoInteractionsText, "orange")
          ELSE Circos(r.layout, named_tracks(r.tracks)))
    ELSE Circos(r.layout, r.tracks)

\* The component update_circos_visualization(n_clicks, data_type,
\* chromosomes) returns
update_circos_visualization(data_type, chromosomes) ==
    IF chromosomes = <<>>
    THEN Message("Please select at least one chromosome", "red")
    ELSE CHOOSE component \in
             { component_of(data_type, r) :
                   r \in {get_circos_data(data_type, chr_chromosomes(chromosomes))} } :
             TRUE

----------------------------------------------------------------------------
(* Circos helpers: utils/circos_helpers.py *)

OnChrom(point, chrom) == point.block_id = chrom

\* the keys of the chromosomes dict, in insertion order
RECURSIVE chrom_keys(_)
chrom_keys(histogram_data) ==
    IF histogram_data = <<>> THEN <<>>
    ELSE LET before == chrom_keys(SubSeq(histogram_data, 1, Len(histogram_data) - 1))
             chrom == histogram_data[Len(histogram_data)].block_id
         IN  IF InList(chrom, before) THEN before ELSE Append(before, chrom)

\* points.sort(key=lambda p: p['position']): stable
RECURSIVE sort_by_position(_)
sort_by_position(points) ==
    IF points = <<>> THEN <<>>
    ELSE LET i == CHOOSE i \in 1..Len(points) :
                      /\ \A j \in 1..Len(points) :
                            points[i].position <= points[j].position
                      /\ \A j \in 1..(i-1) :
                            points[j].position > points[i].position
         IN  <<points[i]>> \o sort_by_position(RemoveAt(points, i))

\* chromosomes[chrom], sorted
points_of(histogram_data, chrom) ==
    sort_by_position(Filter(histogram_data, OnChrom, chrom))

orange == "rgba(255, 165, 0, 0.3)"

\* "for i, point in enumerate(points)" from the i-th point on (i from 1)
RECURSIVE dense_scan(_, _, _, _, _, _)
dense_scan(chrom, points, threshold, i, in_dense_region, start_pos) ==
    IF i > Len(points) THEN <<>>
    ELSE IF points[i].value > threshold /\ ~in_dense_region
    THEN dense_scan(chrom, points, threshold, i + 1, TRUE, points[i].position)
    ELSE IF (points[i].value <= threshold \/ i = Len(points)) /\ in_dense_region
    THEN <<[block_id |-> chrom, start |-> start_pos,
            end |-> points[i].position, color |-> orange]>>
         \o dense_scan(chrom, points, threshold, i + 1, FALSE, start_pos)
    ELSE dense_scan(chrom, points, threshold, i + 1, in_dense_region, start_pos)

RECURSIVE dense_regions(_, _, _, _)
dense_regions(histogram_data, keys, threshold, c) ==
    IF c > Len(keys) THEN <<>>
    ELSE dense_scan(keys[c], points_of(histogram_data, keys[c]), threshold,
                    1, FALSE, 0)
         \o dense_regions(histogram_data, keys, threshold, c + 1)

\* the "random" highlight of the middle third (no draw is made)
middle_third(histogram_data, chrom) ==
    LET points == points_of(histogram_data, chrom)
        min_pos == points[1].position
        max_pos == points[Len(points)].position
        range_size == max_pos - min_pos
    IN  [block_id |-> chrom, start |-> min_pos + (range_size \div 3),
         end |-> max_pos - (range_size \div 3), color |-> orange]

\* generate_highlights_for_dense_regions(histogram_data, threshold)
generate_highlights_for_dense_regions(histogram_data, threshold) ==
    LET keys == chrom_keys(histogram_data)
        found == dense_regions(histogram_data, keys, threshold, 1)
    IN  IF found # <<>> THEN found
        ELSE [c \in 1..Len(keys) |-> middle_third(histogram_data, keys[c])]

\* chord_data[:max_labels]
slice_upto(list, k) ==
    IF k >= 0 THEN SubSeq(list, 1, Min(k, Len(list)))
    ELSE SubSeq(list, 1, Max(0, Len(list) + k))

\* (start + end) // 2
midpoint(side) == (side.start + side.end) \div 2

crimson == "#C70039"

\* a text label; value is f'SV{n}', kept as the pair of its parts
text_label(side, n) ==
    [block_id |-> side.id, position |-> midpoint(side), value |-> <<"SV", n>>,
     color |-> crimson]

\* the labels of the i-th chord (i from 1): one for the source and, "only
\* ... if different from source", one for the target
chord_labels(c, i) ==
    <<text_label(c.source, i)>>
    \o (IF c.source.id # c.target.id
        THEN <<text_label(c.target, i)>> ELSE <<>>)

RECURSIVE labels_from(_, _)
labels_from(chords, i) ==
    IF i > Len(chords) THEN <<>>
    ELSE chord_labels(chords[i], i) \o labels_from(chords, i + 1)

SourceOn(c, chrom) == c.source.id = chrom

\* the keys of chords_by_chrom, in insertion order
RECURSIVE source_keys(_)
source_keys(chord_data) ==
    IF chord_data = <<>> THEN <<>>
    ELSE LET before == source_keys(SubSeq(chord_data, 1, Len(chord_data) - 1))
             chrom == chord_data[Len(chord_data)].source.id
         IN  IF InList(chrom, before) THEN before ELSE Append(before, chrom)

\* the placeholder label of a source chromosome: value 'SV'
placeholder_label(chord_data, chrom) ==
    [block_id |-> chrom,
     position |-> midpoint(Filter(chord_data, SourceOn, chrom)[1].source),
     value |-> <<"SV">>, color |-> crimson]

\* generate_notable_sv_labels(chord_data, max_labels)
generate_notable_sv_labels(chord_data, max_labels) ==
    IF chord_data = <<>> THEN <<>>
    ELSE LET text_labels == labels_from(slice_upto(chord_data, max_labels), 1)
             keys == source_keys(chord_data)
         IN  IF text_labels # <<>> THEN text_labels
             ELSE [c \in 1..Len(keys) |-> placeholder_label(chord_data, keys[c])]

\* num_bins of generate_interaction_heatmap
heat_bins == 20

\* bin_size = chrom_size // num_bins
heat_bin_size(chrom) == size_of(chrom) \div heat_bins

\* pos // bin_size, with no upper limit
heat_bin_idx_Unclamped(chrom, side) == midpoint(side) \div heat_bin_size(chrom)

\* min(num_bins - 1, pos // bin_size), bins counted from 0
heat_bin_idx(chrom, side) ==
    Min(heat_bins - 1, midpoint(side) \div heat_bin_size(chrom))

\* the sides of the chords that are on chrom and fall in bin b: one "+= 1"
\* each
bin_hits(chrom, chord_data, b) ==
    {e \in (1..Len(chord_data)) \X {"source", "target"} :
        LET side == IF e[2] = "source" THEN chord_data[e[1]].source
                    ELSE chord_data[e[1]].target
        IN  side.id = chrom /\ heat_bin_idx(chrom, side) = b}

\* bins, after the counting loop
heat_counts(chrom, chord_data) ==
    [b \in 0..(heat_bins - 1) |-> Cardinality(bin_hits(chrom, chord_data, b))]

SetMax(S) == CHOOSE x \in S : \A y \in S : y <= x

SetMin(S) == CHOOSE x \in S : \A y \in S : x <= y

\* max_count = max(bins) if max(bins) > 0 else 1
max_count(bins) ==
    LET top == SetMax({bins[b] : b \in DOMAIN bins})
    IN  IF top > 0 THEN top ELSE 1

\* count / max_count, kept as the fraction num / den
normalized(n, bins) == [num |-> n, den |-> max_count(bins)]

\* the heatmap points of one chromosome
heat_points(chrom, chord_data) ==
    LET bins == heat_counts(chrom, chord_data)
        bin_size == heat_bin_size(chrom)
    IN  [i \in 1..heat_bins |->
            [block_id |-> chrom, start |-> (i - 1) * bin_size,
             end |-> i * bin_size, value |-> normalized(bins[i - 1], bins)]]

RECURSIVE heat_from(_, _, _)
heat_from(chromosomes, chord_data, c) ==
    IF c > Len(chromosomes) THEN <<>>
    ELSE heat_points(chromosomes[c], chord_data)
         \o heat_from(chromosomes, chord_data, c + 1)

\* generate_interaction_heatmap(chromosomes, chord_data); the placeholder
\* loop runs only for an empty chromosome list and then adds nothing
generate_interaction_heatmap(chromosomes, chord_data) ==
    IF chord_data = <<>> THEN <<>>
    ELSE heat_from(chromosomes, chord_data, 1)

----------------------------------------------------------------------------
(* Registry inputs *)

MaxNameLen == 4
MaxPad == 2

RegAlphabet == {"c", "h", "r", "1", "X", "m", " "}

RECURSIVE StringsUpTo(_, _)
StringsUpTo(A, n) ==
    IF n = 0 THEN {<<>>}
    ELSE LET shorter == StringsUpTo(A, n - 1)
         IN  shorter \cup {Append(s, c) : s \in shorter, c \in A}

RECURSIVE Spaces(_)
Spaces(n) == IF n = 0 THEN <<>> ELSE <<" ">> \o Spaces(n - 1)

Keys == DOMAIN sizes

\* the four spellings of a table key
Variants(k) ==
    {k, chr \o k, <<"C","H","R">> \o k}
    \cup {Spaces(p) \o k \o Spaces(q) : p \in 1..MaxPad, q \in 1..MaxPad}

NonStrings == {NonStr("None"), NonStr("int"), NonStr("list")}

RegInputs ==
    UNION {Variants(k) : k \in Keys}
    \cup StringsUpTo(RegAlphabet, MaxNameLen)
    \cup NonStrings

InitRegistry ==
    /\ regIn \in RegInputs
    /\ regOut = NotCalled
    /\ TracksIdle
    /\ ResolverIdle
    /\ CircosIdle
    /\ HelpersIdle
    /\ NavIdle
    /\ SvIdle
    /\ ConnectionsIdle

\* one call of get_chromosome_size(regIn)
GetChromosomeSize ==
    /\ ~regOut.called
    /\ regOut' = [called |-> TRUE,
                  raised |-> get_chromosome_size(regIn).raised,
                  value  |-> get_chromosome_size(regIn).value]
    /\ UNCHANGED regIn
    /\ UNCHANGED trkVars
    /\ UNCHANGED resVars
    /\ UNCHANGED circVars
    /\ UNCHANGED hlpVars
    /\ UNCHANGED connVars
    /\ UNCHANGED svVars
    /\ UNCHANGED navVars

NextRegistry == GetChromosomeSize

SpecRegistry == InitRegistry /\ [][NextRegistry]_vars

----------------------------------------------------------------------------
(* Resolver inputs *)

FOXE1 == <<"F","O","X","E","1">>
PAX9 == <<"P","A","X","9">>
SMAD1 == <<"S","M","A","D","1">>
SMAD2 == <<"S","M","A","D","2">>
smad3 == <<"s","m","a","d","3">>
SMA == <<"S","M","A">>
TP53 == <<"T","P","5","3">>
NOPE == <<"N","O","P","E">>

chr1 == chr \o <<"1">>
chr2 == chr \o <<"2">>
chr3 == chr \o <<"3">>

Gene(id, chrom, x1, x2) ==
    [id |-> id, chrom |-> chrom, x1 |-> x1, x2 |-> x2, length |-> x2 - x1]

\* genes(id PK, chrom, x1, x2), in rowid order; FOXE1 and smad3 start less
\* than the padding from the chromosome start
GenePool ==
    << Gene(FOXE1, chr1, 500000, 600000),
       Gene(PAX9, chr2, 36000000, 36100000),
       Gene(SMAD1, chr1, 3000000, 3100000),
       Gene(SMAD2, chr2, 45000000, 45200000),
       Gene(smad3, chr1, 1999999, 2100000),
       Gene(SMA, <<"1">>, 70000000, 70100000),
       Gene(TP53, chr3, 7600000, 7700000) >>

MaxMissing == 1

\* the pool without the genes at the positions in drop
RECURSIVE Without(_, _, _)
Without(pool, drop, i) ==
    IF i > Len(pool) THEN <<>>
    ELSE (IF i \in drop THEN <<>> ELSE <<pool[i]>>) \o Without(pool, drop, i + 1)

GeneTables ==
    {Without(GenePool, drop, 1) :
        drop \in SubsetsUpTo(1..Len(GenePool), MaxMissing)}

Row(gene, partners) == [Gene |-> gene, partners |-> partners]

comma == <<",">>
space == <<" ">>
TableRowPool ==
    { Row(FOXE1, PAX9),
      Row(SMAD1, <<"S","M","A","D">> \o space \o family),
      Row(PAX9, FOXE1 \o comma \o space \o NOPE \o comma
                \o <<"S","M","A","D">> \o space \o <<"F","a","m","i","l","y">>),
      Row(FOXE1, <<"-">>),
      Row(PAX9, NaN),
      Row(NOPE, PAX9),
      Row(TP53, PAX9 \o space \o comma \o FOXE1 \o comma),
      Row(FOXE1, <<"s","m","a">> \o space \o family \o comma \o SMA) }

MaxTableRows == 2

RECURSIVE ListsUpTo(_, _)
ListsUpTo(S, n) ==
    IF n = 0 THEN {<<>>}
    ELSE LET shorter == ListsUpTo(S, n - 1)
         IN  shorter \cup {Append(l, x) : l \in shorter, x \in S}

ResolverSelections ==
    { <<>>, <<chr1>>, <<chr1, chr2>>, <<chr2, chr1, chr3>>, <<chr2, <<"1">>>> }

InitResolver ==
    /\ RegistryIdle
    /\ HelpersIdle
    /\ NavIdle
    /\ SvIdle
    /\ ConnectionsIdle
    /\ CircosIdle
    /\ svTable = {}
    /\ bgTable = {}
    /\ trkCall = NoCall
    /\ trkRows = <<>>
    /\ trkOut = NoTrack
    /\ popOut = NoTracks
    /\ dbUp \in BOOLEAN
    /\ csvOk \in BOOLEAN
    /\ (dbUp \/ csvOk)
    /\ genes \in GeneTables
    /\ table \in ListsUpTo(TableRowPool, MaxTableRows)
    /\ sel \in ResolverSelections
    /\ resOut = NoResult

\* the call's outcome as recorded
Outcome(r) == [called |-> TRUE, chord_data |-> r.chord_data, error |-> r.error]

\* one call of generate_gene_interactions_data(sel)
GenerateGeneInteractionsData ==
    /\ ~resOut.called
    /\ resOut' = Outcome(generate_gene_interactions_data(sel))
    /\ UNCHANGED <<genes, table, csvOk, sel>>
    /\ UNCHANGED regVars
    /\ UNCHANGED hlpVars
    /\ UNCHANGED trkVars
    /\ UNCHANGED circVars
    /\ UNCHANGED connVars
    /\ UNCHANGED svVars
    /\ UNCHANGED navVars

NextResolver == GenerateGeneInteractionsData

SpecResolver == InitResolver /\ [][NextResolver]_vars

----------------------------------------------------------------------------
(* Resolver inputs with a malformed gene row *)

BRK1 == <<"B","R","K","1">>

\* genes, with a row for BRK1 whose x1 and x2 are NULL
GenesWithNull ==
    << Gene(FOXE1, chr1, 500000, 600000),
       [id |-> BRK1, chrom |-> chr1],
       Gene(SMAD1, chr1, 3000000, 3100000),
       Gene(PAX9, chr2, 36000000, 36100000) >>

\* rows that name BRK1 as partner or as source, and rows that do not
MalformedRowPool ==
    { Row(FOXE1, SMAD1),
      Row(FOXE1, BRK1 \o comma \o SMAD1),
      Row(BRK1, FOXE1),
      Row(SMAD1, PAX9 \o comma \o FOXE1) }

MalformedSelections == {<<chr1>>, <<chr1, chr2>>, <<chr2>>}

InitMalformed ==
    /\ RegistryIdle
    /\ HelpersIdle
    /\ NavIdle
    /\ SvIdle
    /\ ConnectionsIdle
    /\ CircosIdle
    /\ svTable = {}
    /\ bgTable = {}
    /\ trkCall = NoCall
    /\ trkRows = <<>>
    /\ trkOut = NoTrack
    /\ popOut = NoTracks
    /\ dbUp \in BOOLEAN
    /\ csvOk = TRUE
    /\ genes = GenesWithNull
    /\ table \in ListsUpTo(MalformedRowPool, MaxTableRows)
    /\ sel \in MalformedSelections
    /\ resOut = NoResult

SpecMalformed == InitMalformed /\ [][NextResolver]_vars

----------------------------------------------------------------------------
(* Database connections: sqlite3.connect and conn.close in                 *)
(* utils/database.py get_gene_network_data and                             *)
(* generate_gene_interactions_data, pages/population_svs.py create_*_track *)

\* sqlite3.connect raises ("unavailable"), or it succeeds and
\* cursor.execute raises ("query_error"), or both succeed ("ok")
StoreStates == {"ok", "query_error", "unavailable"}

None == NonStr("None")

\* "if gene_id:": None and the empty string are falsy
gene_id_given(gene_id) == gene_id # None /\ gene_id # <<>>

node(id, label) == [id |-> id, label |-> label]

edge(source, target) == [source |-> source, target |-> target]

\* the placeholder network returned for a gene
placeholder_network(gene_id) ==
    LET rel(n) == gene_id \o <<"_", "r", "e", "l", n>>
    IN  << node(gene_id, "Gene"), node(rel("1"), "Related 1"),
           node(rel("2"), "Related 2"), node(rel("3"), "Related 3"),
           edge(gene_id, rel("1")), edge(gene_id, rel("2")),
           edge(gene_id, rel("3")), edge(rel("1"), rel("2")) >>

\* the network of the except block
default_network ==
    << node("sample1", "Sample 1"), node("sample2", "Sample 2"),
       edge("sample1", "sample2") >>

\* LIMIT 10
network_limit == 10

fetched(rows) ==
    SubSeq(rows, 1, IF Len(rows) < network_limit THEN Len(rows) ELSE network_limit)

\* "for i in range(len(genes) - 1)" from index i on (i from 0)
RECURSIVE network_edges(_, _)
network_edges(rows, i) ==
    IF i >= Len(rows) - 1 THEN <<>>
    ELSE <<edge(rows[i + 1], rows[i + 2])>>
         \o (IF i < Len(rows) - 2 THEN <<edge(rows[i + 1], rows[i + 3])>> ELSE <<>>)
         \o network_edges(rows, i + 1)

network_nodes(rows) == [i \in 1..Len(rows) |-> node(rows[i], rows[i])]

\* get_gene_network_data(gene_id): the connect and close calls made, in
\* order, and the list returned
get_gene_network_data(gene_id, store, rows) ==
    IF store = "unavailable"
    THEN [called |-> TRUE, events |-> <<>>, value |-> default_network]
    ELSE IF gene_id_given(gene_id)
    THEN [called |-> TRUE, events |-> <<"connect">>,
          value |-> placeholder_network(gene_id)]
    ELSE IF store = "query_error"
    THEN [called |-> TRUE, events |-> <<"connect">>, value |-> default_network]
    ELSE [called |-> TRUE, events |-> <<"connect", "close">>,
          value |-> network_nodes(fetched(rows)) \o network_edges(fetched(rows), 0)]

\* create_parent_track, create_child_track, create_background_track:
\* conn.close() is the statement after the loops of the try block
track_connection(call, store, rows) ==
    IF store = "unavailable"
    THEN [called |-> TRUE, events |-> <<>>, value |-> builder_track(call, FALSE, <<>>)]
    ELSE IF store = "query_error"
    THEN [called |-> TRUE, events |-> <<"connect">>,
          value |-> builder_track(call, FALSE, <<>>)]
    ELSE [called |-> TRUE, events |-> <<"connect", "close">>,
          value |-> builder_track(call, TRUE, rows)]

\* a row of the side table that reaches the first cursor.execute
RowQueries(row) == ~no_partners(row.partners)

\* generate_gene_interactions_data: pd.read_csv precedes sqlite3.connect,
\* conn.close() is the statement after the row loop
resolver_connection(chromosomes, store) ==
    LET out == generate_gene_interactions_data(chromosomes)
    IN  IF ~csvOk \/ store = "unavailable"
        THEN [called |-> TRUE, events |-> <<>>, value |-> <<>>]
        ELSE IF store = "query_error"
        THEN [called |-> TRUE,
              events |-> IF \E i \in 1..Len(table) : RowQueries(table[i])
                         THEN <<"connect">> ELSE <<"connect", "close">>,
              value |-> <<>>]
        ELSE [called |-> TRUE,
              events |-> IF out.error THEN <<"connect">> ELSE <<"connect", "close">>,
              value |-> out.chord_data]

----------------------------------------------------------------------------
(* Connection inputs *)

MaxNetGenes == 3

IRF6 == <<"I","R","F","6">>

TP63 == <<"T","P","6","3">>

NetworkGeneIds == {None, <<>>, IRF6}

NetGenePool == {IRF6, TP63}

ConnectionRows ==
    { {SvRow("m1", "sv1", ShapeA, <<"1">>)},
      {SvRow("m1", "sv1", ShapeA, <<"1">>), SvRow("c1", "sv1", ShapeB, <<"1">>)} }

InitConnections ==
    /\ RegistryIdle
    /\ HelpersIdle
    /\ NavIdle
    /\ SvIdle
    /\ CircosIdle
    /\ svTable \in ConnectionRows
    /\ bgTable = {}
    /\ trkCall = NoCall
    /\ trkRows = <<>>
    /\ trkOut = NoTrack
    /\ popOut = NoTracks
    /\ connStore \in StoreStates
    /\ dbUp = (connStore = "ok")
    /\ csvOk \in BOOLEAN
    /\ genes = GenesWithNull
    /\ table \in ListsUpTo(MalformedRowPool \cup {Row(FOXE1, <<"-">>)}, 1)
    /\ sel = <<chr1>>
    /\ resOut = NoResult
    /\ netGenes \in ListsUpTo(NetGenePool, MaxNetGenes)
    /\ connCall = [fn |-> "none"]
    /\ connOut = NoConnection

ConnectionCall(call, out) ==
    /\ connCall.fn = "none"
    /\ connCall' = call
    /\ connOut' = out
    /\ UNCHANGED <<connStore, netGenes>>
    /\ UNCHANGED regVars
    /\ UNCHANGED trkVars
    /\ UNCHANGED resVars
    /\ UNCHANGED circVars
    /\ UNCHANGED hlpVars
    /\ UNCHANGED svVars
    /\ UNCHANGED navVars

GetGeneNetworkData ==
    \E gene_id \in NetworkGeneIds :
       ConnectionCall([fn |-> "get_gene_network_data", gene_id |-> gene_id],
                      get_gene_network_data(gene_id, connStore, netGenes))

CreateTrackConnection ==
    \E call \in {MotherCall(<<"1">>), FatherCall(<<"1">>), ChildCall(<<"1">>),
                  BackgroundCall(<<"1">>)} :
       \E rows \in OrderByStart(query_of(call)) :
          ConnectionCall([fn |-> "create_track", call |-> call],
                         track_connection(call, connStore, rows))

GenerateGeneInteractionsConnection ==
    ConnectionCall([fn |-> "generate_gene_interactions_data"],
                   resolver_connection(sel, connStore))

NextConnections ==
    \/ GetGeneNetworkData
    \/ CreateTrackConnection
    \/ GenerateGeneInteractionsConnection

SpecConnections == InitConnections /\ [][NextConnections]_vars

----------------------------------------------------------------------------
(* Assembler inputs *)

chr10 == chr \o <<"1","0">>
chr100 == chr \o <<"1","0","0">>
chrX == chr \o <<"X">>
chrY == chr \o <<"Y">>
chrM == chr \o <<"M">>

\* names with and without the prefix, X, Y, a name that is neither (chrM,
\* 16,569 bp long) and a number the size table does not hold
ChromPool == {<<"1">>, <<"2">>, chr2, chr10, chrX, chrY, chrM, chr100}

MaxSel == 2

RngStreams == {<<0>>, <<2, 1, 0, 2>>}

CircosTable ==
    << Row(PAX9, <<"S","M","A","D">> \o space \o family \o comma \o FOXE1
                 \o comma \o SMA),
       Row(FOXE1, PAX9 \o comma \o SMAD1) >>

RequestedTypes == DataTypes \cup {"heatmap"}

InitCircos ==
    /\ RegistryIdle
    /\ HelpersIdle
    /\ NavIdle
    /\ SvIdle
    /\ ConnectionsIdle
    /\ svTable = {}
    /\ bgTable = {}
    /\ trkCall = NoCall
    /\ trkRows = <<>>
    /\ trkOut = NoTrack
    /\ popOut = NoTracks
    /\ dbUp \in BOOLEAN
    /\ csvOk = TRUE
    /\ genes = GenePool
    /\ table = CircosTable
    /\ resOut = NoResult
    /\ sel \in ListsUpTo(ChromPool, MaxSel)
    /\ rng \in RngStreams
    /\ dataType = "none"
    /\ circOut = NoCircos
    /\ uiOut = NoComponent
    /\ circAgain = NoCircos

\* one call of get_circos_data(data_type, sel)
GetCircosData ==
    /\ ~circOut.called
    /\ \E data_type \in RequestedTypes :
          /\ dataType \in {"none", data_type}
          /\ dataType' = data_type
          /\ circOut' = get_circos_data(data_type, sel)
    /\ UNCHANGED <<rng, uiOut, circAgain>>
    /\ UNCHANGED regVars
    /\ UNCHANGED hlpVars
    /\ UNCHANGED trkVars
    /\ UNCHANGED resVars
    /\ UNCHANGED connVars
    /\ UNCHANGED svVars
    /\ UNCHANGED navVars

\* one click on "Update Visualization" with sel ticked in the checklist
UpdateCircosVisualization ==
    /\ ~uiOut.called
    /\ \E data_type \in RequestedTypes :
          /\ dataType \in {"none", data_type}
          /\ dataType' = data_type
          /\ uiOut' = update_circos_visualization(data_type, sel)
    /\ UNCHANGED <<rng, circOut, circAgain>>
    /\ UNCHANGED regVars
    /\ UNCHANGED hlpVars
    /\ UNCHANGED trkVars
    /\ UNCHANGED resVars
    /\ UNCHANGED connVars
    /\ UNCHANGED svVars
    /\ UNCHANGED navVars

NextCircos == GetCircosData \/ UpdateCircosVisualization

\* names for the repeated call
RepeatPool == {<<"1">>, chr2, chrX}

InitRepeat ==
    /\ RegistryIdle
    /\ HelpersIdle
    /\ NavIdle
    /\ SvIdle
    /\ ConnectionsIdle
    /\ svTable = {}
    /\ bgTable = {}
    /\ trkCall = NoCall
    /\ trkRows = <<>>
    /\ trkOut = NoTrack
    /\ popOut = NoTracks
    /\ dbUp \in BOOLEAN
    /\ csvOk = TRUE
    /\ genes = GenePool
    /\ table = CircosTable
    /\ resOut = NoResult
    /\ sel \in ListsUpTo(RepeatPool, MaxSel)
    /\ rng \in RngStreams
    /\ dataType = "none"
    /\ circOut = NoCircos
    /\ uiOut = NoComponent
    /\ circAgain = NoCircos

\* the first of two calls of get_circos_data(data_type, sel).  np.random is
\* never seeded and every draw moves the global generator on: after the call
\* it is in another state.
GetCircosDataFirst ==
    /\ ~circOut.called
    /\ \E data_type \in DataTypes :
          /\ dataType' = data_type
          /\ circOut' = get_circos_data(data_type, sel)
    /\ rng' \in RngStreams
    /\ UNCHANGED <<uiOut, circAgain>>
    /\ UNCHANGED regVars
    /\ UNCHANGED trkVars
    /\ UNCHANGED resVars
    /\ UNCHANGED hlpVars
    /\ UNCHANGED connVars
    /\ UNCHANGED svVars
    /\ UNCHANGED navVars

\* the second call, with the same data_type and selection, the store and the
\* side table unchanged
GetCircosDataAgain ==
    /\ circOut.called
    /\ ~circAgain.called
    /\ circAgain' = get_circos_data(dataType, sel)
    /\ UNCHANGED <<dataType, rng, circOut, uiOut>>
    /\ UNCHANGED regVars
    /\ UNCHANGED trkVars
    /\ UNCHANGED resVars
    /\ UNCHANGED hlpVars
    /\ UNCHANGED connVars
    /\ UNCHANGED svVars
    /\ UNCHANGED navVars

NextRepeat == GetCircosDataFirst \/ GetCircosDataAgain

SpecRepeat == InitRepeat /\ [][NextRepeat]_vars

SpecCircos == InitCircos /\ [][NextCircos]_vars

----------------------------------------------------------------------------
(* Assembler inputs with a gene at the end of its chromosome *)

DUX4 == <<"D","U","X","4">>

chr4 == chr \o <<"4">>

\* DUX4 ends 28,613 bp before the end of chr4 (190,214,555 bp)
TelomereGenes ==
    << Gene(FOXE1, chr1, 500000, 600000),
       Gene(DUX4, chr4, 190173774, 190185942) >>

TelomereTable == << Row(FOXE1, DUX4), Row(DUX4, FOXE1) >>

TelomerePool == {chr1, chr4, chrX}

InitIntervals ==
    /\ RegistryIdle
    /\ HelpersIdle
    /\ NavIdle
    /\ SvIdle
    /\ ConnectionsIdle
    /\ svTable = {}
    /\ bgTable = {}
    /\ trkCall = NoCall
    /\ trkRows = <<>>
    /\ trkOut = NoTrack
    /\ popOut = NoTracks
    /\ dbUp \in BOOLEAN
    /\ csvOk = TRUE
    /\ genes = TelomereGenes
    /\ table = TelomereTable
    /\ resOut = NoResult
    /\ sel \in ListsUpTo(TelomerePool, MaxSel)
    /\ rng \in RngStreams
    /\ dataType = "none"
    /\ circOut = NoCircos
    /\ uiOut = NoComponent
    /\ circAgain = NoCircos

SpecIntervals == InitIntervals /\ [][GetCircosData]_vars

----------------------------------------------------------------------------
(* Simulated SV inputs *)

\* nine chromosomes, each longer than 10,000,000 bp
SvNames == << <<"1">>, <<"2">>, <<"3">>, <<"4">>, <<"5">>, <<"6">>, <<"7">>,
              <<"8">>, <<"9">> >>

Reversed(s) == [i \in 1..Len(s) |-> s[Len(s) + 1 - i]]

SvOrders == {SvNames, Reversed(SvNames), [i \in 1..Len(SvNames) |-> chr \o SvNames[i]]}

\* min(len(chromosomes) * 3, 20) is 20 from seven chromosomes on
MaxSvSel == 7

SvStreams == {<<0>>, <<2>>, <<2, 1, 0, 2>>, <<1, 0, 0, 2, 1>>}

InitSv ==
    /\ RegistryIdle
    /\ HelpersIdle
    /\ NavIdle
    /\ ConnectionsIdle
    /\ dataType = "none"
    /\ circOut = NoCircos
    /\ uiOut = NoComponent
    /\ circAgain = NoCircos
    /\ rng \in SvStreams
    /\ svTable = {}
    /\ bgTable = {}
    /\ trkCall = NoCall
    /\ trkRows = <<>>
    /\ trkOut = NoTrack
    /\ popOut = NoTracks
    /\ dbUp \in BOOLEAN
    /\ csvOk = TRUE
    /\ genes = GenePool
    /\ table = <<>>
    /\ resOut = NoResult
    /\ \E order \in SvOrders, n \in 0..MaxSvSel : sel = SubSeq(order, 1, n)
    /\ svOut = NoSvData

\* one call of generate_sv_data(sel)
GenerateSvData ==
    /\ ~svOut.called
    /\ \E out \in {generate_sv_data(sel, 0)} :
          svOut' = [called |-> TRUE, raised |-> out.raised,
                    chord_data |-> out.chord_data]
    /\ UNCHANGED circVars
    /\ UNCHANGED regVars
    /\ UNCHANGED hlpVars
    /\ UNCHANGED trkVars
    /\ UNCHANGED resVars
    /\ UNCHANGED connVars
    /\ UNCHANGED navVars

NextSv == GenerateSvData

SpecSv == InitSv /\ [][NextSv]_vars

----------------------------------------------------------------------------
(* Helper inputs *)

MaxPoints == 4

\* the distance between two histogram positions
BinStep == 100

DefaultThreshold == 70

\* a value below, at and above the default threshold, on two chromosomes
PointKinds ==
    {[block_id |-> c, value |-> v] : c \in {chr1, chr2}, v \in {10, 70, 80}}

\* the points at increasing positions, or at decreasing ones
Positioned(kinds, ascending) ==
    [i \in 1..Len(kinds) |->
        [block_id |-> kinds[i].block_id,
         position |-> IF ascending THEN (i - 1) * BinStep
                      ELSE (Len(kinds) - i) * BinStep,
         value |-> kinds[i].value]]

\* values [10, 10, 80, 90, 80, 10] at increasing positions on one chromosome
ExampleHistogram ==
    [i \in 1..6 |->
        [block_id |-> chr1, position |-> (i - 1) * BinStep,
         value |-> <<10, 10, 80, 90, 80, 10>>[i]]]

Histograms ==
    {Positioned(kinds, ascending) :
        kinds \in ListsUpTo(PointKinds, MaxPoints), ascending \in BOOLEAN}
    \cup {ExampleHistogram}

InitHelpers ==
    /\ RegistryIdle
    /\ HelpersIdle
    /\ NavIdle
    /\ SvIdle
    /\ ConnectionsIdle
    /\ TracksIdle
    /\ ResolverIdle
    /\ CircosIdle

\* one call of generate_highlights_for_dense_regions(histogram_data) with the
\* default threshold
GenerateHighlightsForDenseRegions ==
    /\ hlpCall = NoHelper
    /\ \E histogram_data \in Histograms :
          /\ hlpCall' = [fn |-> "highlights", histogram_data |-> histogram_data,
                         threshold |-> DefaultThreshold]
          /\ hlpOut' = generate_highlights_for_dense_regions(histogram_data,
                                                             DefaultThreshold)
    /\ UNCHANGED regVars
    /\ UNCHANGED trkVars
    /\ UNCHANGED resVars
    /\ UNCHANGED circVars
    /\ UNCHANGED connVars
    /\ UNCHANGED svVars
    /\ UNCHANGED navVars

MaxChords == 3

Side(id, start, end) == [id |-> id, start |-> start, end |-> end]

Chord(source, target) == [source |-> source, target |-> target]

\* chords between two chromosomes, and one within a chromosome
ChordPool ==
    { Chord(Side(chr1, 1000, 2001), Side(chr2, 50000000, 50000400)),
      Chord(Side(chr2, 7000, 9000), Side(chr1, 200000000, 200000100)),
      Chord(Side(chr1, 30000000, 30000500), Side(chr1, 90000000, 90000700)) }

ChordLists == ListsUpTo(ChordPool, MaxChords)

DefaultMaxLabels == 5

\* the default, and a limit below the number of chords
LabelLimits == {DefaultMaxLabels, 2}

\* one call of generate_notable_sv_labels(chord_data, max_labels)
GenerateNotableSvLabels ==
    /\ hlpCall = NoHelper
    /\ \E chord_data \in ChordLists, max_labels \in LabelLimits :
          /\ hlpCall' = [fn |-> "labels", chord_data |-> chord_data,
                         max_labels |-> max_labels]
          /\ hlpOut' = generate_notable_sv_labels(chord_data, max_labels)
    /\ UNCHANGED regVars
    /\ UNCHANGED trkVars
    /\ UNCHANGED resVars
    /\ UNCHANGED circVars
    /\ UNCHANGED connVars
    /\ UNCHANGED svVars
    /\ UNCHANGED navVars

\* the start of an interval whose midpoint is in bin b of chr1
InBin(b) == b * heat_bin_size(chr1) + 1000

\* eleven chords within chr1 whose ends fall in each of its twenty bins,
\* bins 0 and 1 twice
DenseChords ==
    [j \in 1..11 |->
        LET b == IF j = 11 THEN 0 ELSE 2 * (j - 1)
        IN  Chord(Side(chr1, InBin(b), InBin(b) + 2),
                  Side(chr1, InBin(b + 1), InBin(b + 1) + 2))]

\* a chord whose source midpoint lies in the last two bases of chr1, past
\* the end of bin 19, and whose target lies in bin 19 of chr2
EndChords ==
    << Chord(Side(chr1, size_of(chr1) - 2, size_of(chr1)),
             Side(chr2, 19 * heat_bin_size(chr2), 19 * heat_bin_size(chr2) + 10)) >>

HeatmapChromosomes == {<<chr1>>, <<chr2>>, <<chr1, chr2>>}

\* one call of generate_interaction_heatmap(chromosomes, chord_data)
GenerateInteractionHeatmap ==
    /\ hlpCall = NoHelper
    /\ \E chromosomes \in HeatmapChromosomes,
          chord_data \in ChordLists \cup {DenseChords, EndChords} :
          /\ hlpCall' = [fn |-> "heatmap", chromosomes |-> chromosomes,
                         chord_data |-> chord_data]
          /\ hlpOut' = generate_interaction_heatmap(chromosomes, chord_data)
    /\ UNCHANGED regVars
    /\ UNCHANGED trkVars
    /\ UNCHANGED resVars
    /\ UNCHANGED circVars
    /\ UNCHANGED connVars
    /\ UNCHANGED svVars
    /\ UNCHANGED navVars

NextHelpers ==
    \/ GenerateHighlightsForDenseRegions
    \/ GenerateNotableSvLabels
    \/ GenerateInteractionHeatmap

SpecHelpers == InitHelpers /\ [][NextHelpers]_vars

----------------------------------------------------------------------------
(* Claims about the chromosome registry, checked under SpecRegistry *)

\* C1: for every key k of the size table, get_chromosome_size returns the
\* table value of k for k, "chr"+k, "CHR"+k and k surrounded by spaces.
C1_VariantsResolveToTableValue ==
    regOut.called =>
        \A k \in Keys :
            regIn \in Variants(k) =>
                /\ ~regOut.raised
                /\ regOut.value = sizes[k]

C1_Witness ==
    /\ regOut.called
    /\ regIn = <<"C","H","R","M","T">>
    /\ regOut.value = 16569

\* the spellings of the name that the lookup compares with the table keys
Spellings(s) ==
    LET n == IF str_startswith(str_lower(s), chr) THEN str_from(s, 3) ELSE s
    IN  {n, str_upper(n), str_lower(n),
         str_strip(n), str_upper(str_strip(n)), str_lower(str_strip(n))}

\* C2: an input that matches no table key after normalization, the empty
\* string and non-string values included, yields 100000000 and no exception.
C2_UnknownNamesGetDefault ==
    (regOut.called /\ (~IsStr(regIn) \/ Spellings(regIn) \cap Keys = {})) =>
        /\ ~regOut.raised
        /\ regOut.value = 100000000

C2_Witness ==
    /\ regOut.called
    /\ regIn = <<"c","h","r"," ">>
    /\ regOut.value = 100000000

C2_WitnessNonString ==
    /\ regOut.called
    /\ regIn = NonStr("None")
    /\ regOut.value = 100000000

----------------------------------------------------------------------------
(* Claims about the track builders, checked under SpecTracks *)

RowsWithId(id) == {i \in 1..Len(trkRows) : trkRows[i].id = id}

FirstRowWithId(id) ==
    trkRows[CHOOSE i \in RowsWithId(id) : \A j \in RowsWithId(id) : i <= j]

FeaturesNamed(id) ==
    {k \in 1..Len(trkOut.features) : trkOut.features[k].name = id}

\* C3: for the rows returned for one cohort and chromosome, each builder
\* emits exactly one feature per distinct SV id, and no other feature; the
\* feature carries the interval and type of the first returned row with that
\* id, Count is the number of returned rows with that id, and Size is that
\* first row's end minus its start.
C3_OneFeaturePerSvId ==
    (trkCall # NoCall /\ dbUp) =>
        /\ \A k \in 1..Len(trkOut.features) :
              RowsWithId(trkOut.features[k].name) # {}
        /\ \A i \in 1..Len(trkRows) :
              LET id == trkRows[i].id
                  first == FirstRowWithId(id)
              IN  /\ Cardinality(FeaturesNamed(id)) = 1
                  /\ \A k \in FeaturesNamed(id) :
                        LET f == trkOut.features[k]
                        IN  /\ f.chr = first.chrom
                            /\ f.start = first.start
                            /\ f.end = first.end
                            /\ f.type = first.type
                            /\ f.description.Type = first.type
                            /\ f.description.Count = Cardinality(RowsWithId(id))
                            /\ f.description.Size = first.end - first.start

\* two ids, one of them seen three times with different intervals
C3_Witness ==
    /\ trkCall # NoCall
    /\ dbUp
    /\ trkCall.builder = "child"
    /\ Len(trkRows) = 3
    /\ Len(trkOut.features) = 1
    /\ trkOut.features[1].description.Count = 3
    /\ \E i \in 1..3 : trkRows[i].end # trkRows[1].end

C3_WitnessParent ==
    /\ trkCall # NoCall
    /\ dbUp
    /\ trkCall.builder = "parent"
    /\ Len(trkRows) = 3
    /\ Len(trkOut.features) = 2

C3_WitnessBackground ==
    /\ trkCall # NoCall
    /\ dbUp
    /\ trkCall.builder = "background"
    /\ Len(trkRows) = 3
    /\ Len(trkOut.features) = 2
    /\ \E k \in 1..2 : trkOut.features[k].description.Count = 2

----------------------------------------------------------------------------
(* Claims about the gene interaction resolver, checked under SpecResolver *)

Completed == resOut.called /\ ~resOut.error

GeneIds == {genes[i].id : i \in 1..Len(genes)}

GeneWithId(id) == genes[CHOOSE i \in 1..Len(genes) : genes[i].id = id]

Selected(chrom) == \E i \in 1..Len(sel) : sel[i] = chrom

\* the partner tokens of a side-table row: the comma-separated parts of the
\* cell, trimmed; an empty cell has none
TokensOf(row) ==
    IF row.partners = NaN THEN <<>>
    ELSE LET parts == str_split(row.partners, ",")
         IN  [j \in 1..Len(parts) |-> str_strip(parts[j])]

HasFamily(token) == str_contains(str_lower(token), family)

\* the row's source gene is in the genes table, on a selected chromosome
SourceResolves(row) ==
    /\ row.Gene \in GeneIds
    /\ Selected(GeneWithId(row.Gene).chrom)

\* <<i, j>>: token j of row i is a family token of a row whose source resolves
FamilyTokens ==
    {ij \in (1..Len(table)) \X (1..8) :
        /\ ij[2] <= Len(TokensOf(table[ij[1]]))
        /\ HasFamily(TokensOf(table[ij[1]])[ij[2]])
        /\ SourceResolves(table[ij[1]])}

FamilyChords(s, t) ==
    {k \in 1..Len(resOut.chord_data) :
        /\ resOut.chord_data[k].color = UCONN_LIGHT_BLUE
        /\ resOut.chord_data[k].source_gene = s
        /\ resOut.chord_data[k].target_gene = t}

\* C5: for a partner token that contains "family", the resolver emits
\* exactly one chord per gene whose id starts, case-sensitively, with the
\* token's first word and whose chromosome is selected, and no chord to a
\* gene whose id does not start with that prefix.
C5_FamilyPrefixCaseSensitive ==
    Completed =>
        \A s \in GeneIds : \A t \in GeneIds :
            Cardinality(FamilyChords(s, t)) =
                Cardinality({ij \in FamilyTokens :
                    /\ table[ij[1]].Gene = s
                    /\ str_startswith(t, first_word(TokensOf(table[ij[1]])[ij[2]]))
                    /\ Selected(GeneWithId(t).chrom)})

\* <<i, j>>: token j of row i is a token without "family" for which the
\* source gene and the partner both exist on selected chromosomes
DirectHit(i, j) ==
    LET row == table[i]
        token == TokensOf(row)[j]
    IN  /\ ~HasFamily(token)
        /\ SourceResolves(row)
        /\ token \in GeneIds
        /\ Selected(GeneWithId(token).chrom)

RECURSIVE ExpectedDirect(_, _)
\* the direct hits from token j of row i on, in table order
ExpectedDirect(i, j) ==
    IF i > Len(table) THEN <<>>
    ELSE IF j > Len(TokensOf(table[i])) THEN ExpectedDirect(i + 1, 1)
    ELSE (IF DirectHit(i, j)
          THEN <<[sid |-> GeneWithId(table[i].Gene).chrom,
                  tid |-> GeneWithId(TokensOf(table[i])[j]).chrom,
                  sg |-> table[i].Gene,
                  tg |-> TokensOf(table[i])[j]]>>
          ELSE <<>>)
         \o ExpectedDirect(i, j + 1)

IsDirectChord(c) == c.color = UCONN_NAVY

DirectChords == SelectSeq(resOut.chord_data, IsDirectChord)

\* C6: a token without "family" yields exactly one chord, from the source
\* gene's chromosome to the partner's chromosome and labelled with the two
\* gene ids, iff source gene and partner both exist in the genes table on
\* selected chromosomes; every other row or token yields no chord and the
\* tokens and rows after it are still processed.
C6_DirectPartnerChords ==
    Completed =>
        /\ Len(DirectChords) = Len(ExpectedDirect(1, 1))
        /\ \A k \in 1..Len(DirectChords) :
              /\ DirectChords[k].source.id = ExpectedDirect(1, 1)[k].sid
              /\ DirectChords[k].target.id = ExpectedDirect(1, 1)[k].tid
              /\ DirectChords[k].source_gene = ExpectedDirect(1, 1)[k].sg
              /\ DirectChords[k].target_gene = ExpectedDirect(1, 1)[k].tg

\* the end-to-end scenario: one row FOXE1 -> PAX9, selection chr1, chr2
C6_Witness ==
    /\ Completed
    /\ table = <<Row(FOXE1, PAX9)>>
    /\ sel = <<chr1, chr2>>
    /\ Len(resOut.chord_data) = 1
    /\ resOut.chord_data[1].source.id = chr1
    /\ resOut.chord_data[1].target.id = chr2
    /\ resOut.chord_data[1].source_gene = FOXE1
    /\ resOut.chord_data[1].target_gene = PAX9

\* a row that yields nothing, followed by a row that yields a chord
C6_WitnessSkipThenHit ==
    /\ Completed
    /\ Len(table) = 2
    /\ table[1].Gene = NOPE
    /\ Len(DirectChords) = 1

\* C7: on both sides of every chord, start = max(0, gene start - 2,000,000)
\* and end = gene end + 2,000,000, so both starts are >= 0.
C7_PaddingClamped ==
    resOut.called =>
        \A k \in 1..Len(resOut.chord_data) :
            LET c == resOut.chord_data[k]
                sg == GeneWithId(c.source_gene)
                tg == GeneWithId(c.target_gene)
            IN  /\ c.source.start = (IF sg.x1 > 2000000 THEN sg.x1 - 2000000 ELSE 0)
                /\ c.target.start = (IF tg.x1 > 2000000 THEN tg.x1 - 2000000 ELSE 0)
                /\ c.source.end = sg.x2 + 2000000
                /\ c.target.end = tg.x2 + 2000000
                /\ c.source.start >= 0
                /\ c.target.start >= 0

\* a chord whose source starts 500,000 and whose target starts 1,999,999
C7_Witness ==
    /\ resOut.called
    /\ \E k \in 1..Len(resOut.chord_data) :
          /\ resOut.chord_data[k].source_gene = FOXE1
          /\ resOut.chord_data[k].target_gene = smad3
          /\ resOut.chord_data[k].source.start = 0
          /\ resOut.chord_data[k].target.start = 0
          /\ resOut.chord_data[k].target.end = 4100000

----------------------------------------------------------------------------
(* Claims about the Circos data assembler and page, checked under          *)
(* SpecCircos                                                              *)

Returns == circOut.called /\ ~circOut.raised

LayoutIds == {circOut.layout[i].id : i \in 1..Len(circOut.layout)}

\* a name with its leading chr prefix, if any, taken off
NamePart(c) == IF str_startswith(c, chr) THEN str_from(c, 3) ELSE c

HasNumericName(c) == str_isdigit(NamePart(c))

\* 0: numeric names, 1: X, 2: Y, 3: every other name
OrderClass(c) ==
    IF HasNumericName(c) THEN 0
    ELSE IF NamePart(c) = <<"X">> THEN 1
    ELSE IF NamePart(c) = <<"Y">> THEN 2
    ELSE 3

MayPrecede(a, b) ==
    \/ OrderClass(a) < OrderClass(b)
    \/ /\ OrderClass(a) = OrderClass(b)
       /\ OrderClass(a) = 0 => str_int(NamePart(a)) <= str_int(NamePart(b))

\* C4: the layout get_circos_data returns lists the names that are a number
\* (with or without the chr prefix) first, in ascending numeric order, then
\* X, then Y, then every other name.
C4_LayoutOrder ==
    Returns =>
        \A i \in 1..Len(circOut.layout) : \A j \in 1..Len(circOut.layout) :
            i < j => MayPrecede(circOut.layout[i].id, circOut.layout[j].id)

\* the chromosomes a data point of a track names
PointChroms(type, d) ==
    IF type = "CHORDS" THEN {d.source.id, d.target.id} ELSE {d.block_id}

\* C8: for each of the four data types, every data point of every returned
\* track (histogram and highlight block_id, chord source.id and target.id)
\* names a chromosome that is the id of an entry of the returned layout.
C8_DataPointsInLayout ==
    (Returns /\ dataType \in DataTypes) =>
        \A t \in 1..Len(circOut.tracks) :
            \A k \in 1..Len(circOut.tracks[t].data) :
                PointChroms(circOut.tracks[t].type, circOut.tracks[t].data[k])
                    \subseteq LayoutIds

\* gene interactions returned for a selection that holds PAX9's chromosome
\* but not the chromosome of its partner SMA: a chord is emitted, the one to
\* SMA is not
C8_Witness ==
    /\ Returns
    /\ dataType = "gene_interactions"
    /\ Selected(chr2)
    /\ ~Selected(<<"1">>)
    /\ \E k \in 1..Len(circOut.tracks[1].data) :
          /\ circOut.tracks[1].data[k].source_gene = PAX9
          /\ circOut.tracks[1].data[k].target_gene = SMAD2

Occurrences(list, x) == Cardinality({i \in 1..Len(list) : list[i] = x})

LayoutIdList == [i \in 1..Len(circOut.layout) |-> circOut.layout[i].id]

\* C9: the returned layout holds exactly one entry per element of the
\* selection (a name selected n times has n entries, and there is no other
\* entry), each with len = get_chromosome_size of its id.
C9_LayoutEntryPerElement ==
    Returns =>
        /\ Len(circOut.layout) = Len(sel)
        /\ \A i \in 1..Len(sel) :
              Occurrences(LayoutIdList, sel[i]) = Occurrences(sel, sel[i])
        /\ \A i \in 1..Len(circOut.layout) :
              circOut.layout[i].len = get_chromosome_size(circOut.layout[i].id).value

\* two different names selected out of order, with sizes from the table
C9_Witness ==
    /\ Returns
    /\ sel = <<chrX, chr2>>
    /\ circOut.layout[1].id = chr2
    /\ circOut.layout[1].len = 242193529
    /\ circOut.layout[2].len = 156040895

\* C10: for an empty selection and each of the four data types,
\* get_circos_data returns an empty layout without raising, and
\* update_circos_visualization returns a message component, not a plot.
C10_EmptySelection ==
    (sel = <<>> /\ dataType \in DataTypes) =>
        /\ circOut.called => (~circOut.raised /\ circOut.layout = <<>>)
        /\ uiOut.called => (uiOut.kind = "message" /\ uiOut.text # "")

C10_Witness ==
    /\ sel = <<>>
    /\ dataType = "structural_variations"
    /\ circOut.called
    /\ circOut.layout = <<>>
    /\ uiOut.called
    /\ uiOut.text = "Please select at least one chromosome"

TrackTypes == [t \in 1..Len(circOut.tracks) |-> circOut.tracks[t].type]

HighlightChroms ==
    [i \in 1..Len(circOut.tracks[1].data) |-> circOut.tracks[1].data[i].block_id]

\* C11: what get_circos_data returns holds one HISTOGRAM track for
\* gene_density, one CHORDS track for structural_variations and for
\* gene_interactions, and the three tracks HIGHLIGHT, CHORDS, HISTOGRAM for
\* sample_comparison, the HIGHLIGHT track with one region per element of the
\* selection.
C11_TracksPerDataType ==
    Returns =>
        /\ dataType = "gene_density" => TrackTypes = <<"HISTOGRAM">>
        /\ dataType = "structural_variations" => TrackTypes = <<"CHORDS">>
        /\ dataType = "gene_interactions" => TrackTypes = <<"CHORDS">>
        /\ dataType = "sample_comparison" =>
              /\ TrackTypes = <<"HIGHLIGHT", "CHORDS", "HISTOGRAM">>
              /\ Len(HighlightChroms) = Len(sel)
              /\ \A i \in 1..Len(sel) :
                    Occurrences(HighlightChroms, sel[i]) = Occurrences(sel, sel[i])

\* sample_comparison returned for a name selected twice, with chords and
\* bins generated
C11_Witness ==
    /\ Returns
    /\ dataType = "sample_comparison"
    /\ sel = <<chr2, chr2>>
    /\ Len(circOut.tracks[1].data) = 2
    /\ Len(circOut.tracks[2].data) = 6
    /\ Len(circOut.tracks[3].data) = 2 * num_bins

----------------------------------------------------------------------------
(* Claims about failures of the track builders, checked under SpecTracks *)

SameShape(track, call) ==
    /\ track.name = track_name(call)
    /\ track.color = track_color(call)
    /\ track.height = make_track(call, <<>>).height
    /\ track.format = make_track(call, <<>>).format
    /\ track.displayMode = make_track(call, <<>>).displayMode

\* C12: a builder whose connection or query fails returns a track with no
\* feature and with the name, color, height, format and displayMode of its
\* success path, and create_population_tracks returns four tracks in the
\* order mother, father, child, background whichever of its builders fail.
C12_BuildersDegradeToEmptyTrack ==
    /\ (trkCall # NoCall /\ ~dbUp) =>
          (trkOut.features = <<>> /\ SameShape(trkOut, trkCall))
    /\ popOut.called =>
          /\ Len(popOut.tracks) = 4
          /\ SameShape(popOut.tracks[1], MotherCall(popOut.chrom))
          /\ SameShape(popOut.tracks[2], FatherCall(popOut.chrom))
          /\ SameShape(popOut.tracks[3], ChildCall(popOut.chrom))
          /\ SameShape(popOut.tracks[4], BackgroundCall(popOut.chrom))
          /\ \A i \in popOut.down : popOut.tracks[i].features = <<>>

\* the father and background builders fail while the mother builder returns
\* features
C12_Witness ==
    /\ popOut.called
    /\ popOut.down = {2, 4}
    /\ popOut.tracks[1].features # <<>>
    /\ popOut.tracks[2].features = <<>>
    /\ popOut.tracks[2].name = "Fathers (Combined)"

C12_WitnessSingle ==
    /\ trkCall.builder = "child"
    /\ ~dbUp
    /\ svTable # {}
    /\ trkOut.color = "#02254B"
    /\ trkOut.features = <<>>

----------------------------------------------------------------------------
(* Claims about errors on the Circos page, checked under SpecCircos *)

\* what the callback's call of get_circos_data came to
PageData == get_circos_data(dataType, chr_chromosomes(sel))

\* C13: update_circos_visualization returns a component whatever happens,
\* and when building the layout or the tracks raised (an unsupported
\* data_type included) the component is a red message holding the
\* exception's text.
C13_CallbackNeverRaises ==
    uiOut.called =>
        /\ uiOut.kind \in {"message", "circos"}
        /\ (sel # <<>> /\ PageData.raised) =>
              /\ uiOut.kind = "message"
              /\ uiOut.color = "red"
              /\ uiOut.text = "Error generating visualization: " \o PageData.exception

\* an unsupported data type with a chromosome ticked
C13_Witness ==
    /\ uiOut.called
    /\ dataType = "heatmap"
    /\ sel = <<<<"1">>>>
    /\ uiOut.color = "red"
    /\ uiOut.text = "Error generating visualization: " \o UnboundLocalErrorText

\* what the resolver came to in the callback's call
PageResolver == generate_gene_interactions_data(chr_chromosomes(sel))

\* C14: for gene_interactions the message "No gene interaction data found"
\* is returned only when the resolver ran to completion and produced no
\* chord; when the resolver hit a processing error the callback returns an
\* error message instead.
C14_EmptyResultDistinctFromError ==
    (uiOut.called /\ dataType = "gene_interactions" /\ sel # <<>>) =>
        /\ uiOut.text = NoInteractionsText =>
              (~PageResolver.error /\ PageResolver.chord_data = <<>>)
        /\ PageResolver.error =>
              (uiOut.kind = "message" /\ uiOut.color = "red")

----------------------------------------------------------------------------
(* Claims about the Circos helpers, checked under SpecHelpers *)

Highlighted == hlpCall.fn = "highlights"

\* the points of a chromosome of the call, by position
CallPoints(chrom) == points_of(hlpCall.histogram_data, chrom)

Above(point) == point.value > hlpCall.threshold

\* the index pairs <<a, b>> of the maximal runs of points above the threshold
RunsOf(points) ==
    {r \in (1..Len(points)) \X (1..Len(points)) :
        /\ r[1] <= r[2]
        /\ \A i \in r[1]..r[2] : Above(points[i])
        /\ r[1] = 1 \/ ~Above(points[r[1] - 1])
        /\ r[2] = Len(points) \/ ~Above(points[r[2] + 1])}

HighlightsOn(chrom) == Filter(hlpOut, OnChrom, chrom)

CallChroms ==
    {hlpCall.histogram_data[i].block_id : i \in 1..Len(hlpCall.histogram_data)}

\* C15: when some point exceeds the threshold, each chromosome gets exactly
\* one highlight per maximal run of points above the threshold, starting at
\* the position of the run's first point, and no other highlight; a run made
\* of the chromosome's last point alone counts.
C15_OneHighlightPerRun ==
    (Highlighted /\ \E i \in 1..Len(hlpCall.histogram_data) :
                         Above(hlpCall.histogram_data[i])) =>
        /\ \A chrom \in CallChroms :
              /\ Len(HighlightsOn(chrom)) = Cardinality(RunsOf(CallPoints(chrom)))
              /\ \A r \in RunsOf(CallPoints(chrom)) :
                    \E k \in 1..Len(HighlightsOn(chrom)) :
                        HighlightsOn(chrom)[k].start = CallPoints(chrom)[r[1]].position
        /\ \A k \in 1..Len(hlpOut) : hlpOut[k].block_id \in CallChroms

\* C16: a run of points above the threshold that is followed by a point at
\* or below it gets a highlight from the position of the run's first point to
\* the position of the run's last point above the threshold.
C16_HighlightEndsAtLastDensePoint ==
    Highlighted =>
        \A chrom \in CallChroms :
            \A r \in RunsOf(CallPoints(chrom)) :
                r[2] < Len(CallPoints(chrom)) =>
                    \E k \in 1..Len(HighlightsOn(chrom)) :
                        /\ HighlightsOn(chrom)[k].start = CallPoints(chrom)[r[1]].position
                        /\ HighlightsOn(chrom)[k].end = CallPoints(chrom)[r[2]].position

Labelled == hlpCall.fn = "labels"

\* min(N, number of chords)
LabelledChords == Min(hlpCall.max_labels, Len(hlpCall.chord_data))

HasLabelAt(side) ==
    \E k \in 1..Len(hlpOut) :
        /\ hlpOut[k].block_id = side.id
        /\ hlpOut[k].position = (side.start + side.end) \div 2

\* C17: each of the first min(N, number of chords) chords gets one label at
\* the midpoint of its source interval and one at the midpoint of its target
\* interval, two labels per chord whether or not both ends are on one
\* chromosome, and no later chord gets a label.
C17_TwoLabelsPerChord ==
    Labelled =>
        /\ Len(hlpOut) = 2 * LabelledChords
        /\ \A i \in 1..LabelledChords :
              /\ HasLabelAt(hlpCall.chord_data[i].source)
              /\ HasLabelAt(hlpCall.chord_data[i].target)

Heated == hlpCall.fn = "heatmap" /\ hlpCall.chord_data # <<>>

\* the endpoint counts of the bins of the c-th chromosome of the call
CountsOf(c) == heat_counts(hlpCall.chromosomes[c], hlpCall.chord_data)

CountSet(c) == {CountsOf(c)[b] : b \in 0..(heat_bins - 1)}

\* the value given to bin b (from 0) of the c-th chromosome
ValueOf(c, b) == hlpOut[(c - 1) * heat_bins + b + 1].value

\* C18: the value of a bin is (count - min) / (max - min) over the 20 bins
\* of its chromosome, so that the least populated bin has value 0 and the
\* most populated bin has value 1.
C18_MinMaxNormalized ==
    Heated =>
        \A c \in 1..Len(hlpCall.chromosomes) :
            \A b \in 0..(heat_bins - 1) :
                LET lo == SetMin(CountSet(c))
                    hi == SetMax(CountSet(c))
                    v == ValueOf(c, b)
                IN  /\ v.num * (hi - lo) = (CountsOf(c)[b] - lo) * v.den
                    /\ CountsOf(c)[b] = lo => v.num = 0
                    /\ CountsOf(c)[b] = hi => v.num = v.den

----------------------------------------------------------------------------
(* Claims about repeated calls of get_circos_data, checked under SpecRepeat *)

\* C19: for a fixed data_type and selection and unchanged store and side
\* table, two calls of get_circos_data return the same layout and the same
\* track data.
C19_RepeatedCallSameData ==
    circAgain.called =>
        /\ circAgain.raised = circOut.raised
        /\ circAgain.layout = circOut.layout
        /\ circAgain.tracks = circOut.tracks

----------------------------------------------------------------------------
(* Claims about malformed input of the resolver, checked under             *)
(* SpecMalformed                                                           *)

\* processing row i of the side table raises nothing
WellFormedRow(i) ==
    \A k \in 1..Len(row_chords(table[i], sel)) :
        ~IsRaised(row_chords(table[i], sel)[k])

\* C20: when processing a side-table row or partner token fails, that row or
\* token is skipped and the later rows are still processed: the result holds
\* the chords of every well-formed row, before and after the malformed one.
C20_MalformedRowSkipped ==
    (resOut.called /\ dbUp /\ csvOk) =>
        \A i \in 1..Len(table) :
            WellFormedRow(i) =>
                \A k \in 1..Len(row_chords(table[i], sel)) :
                    \E j \in 1..Len(resOut.chord_data) :
                        resOut.chord_data[j] = row_chords(table[i], sel)[k]

----------------------------------------------------------------------------
(* Claims about the chromosome a track builder selects by, checked under   *)
(* SpecTracks                                                              *)

\* the table a builder reads
StoredRows(call) == IF call.builder = "background" THEN bgTable ELSE svTable

\* the features of a returned track come from rows stored under chrom
\* itself
FromExactChrom(track, call) ==
    \A k \in 1..Len(track.features) :
        /\ track.features[k].chr = call.chrom
        /\ \E r \in StoredRows(call) :
              r.id = track.features[k].name /\ r.chrom = call.chrom

\* get_chromosome_size resolves "1", "chr1" and "CHR1" to one size
OneSizeForAllSpellings ==
    /\ size_of(<<"1">>) = size_of(chr \o <<"1">>)
    /\ size_of(CHR1) = size_of(chr \o <<"1">>)

\* C21: the three track builders select rows whose stored chrom equals the
\* requested chromosome as a string: a request for "chr1" returns no
\* feature stored under "1" or "CHR1", names that get_chromosome_size
\* resolves to one size.
C21_TracksMatchChromExactly ==
    /\ OneSizeForAllSpellings
    /\ (trkCall # NoCall /\ dbUp) =>
          /\ \A i \in 1..Len(trkRows) : trkRows[i].chrom = trkCall.chrom
          /\ FromExactChrom(trkOut, trkCall)
    /\ (popOut.called /\ dbUp) =>
          /\ FromExactChrom(popOut.tracks[1], MotherCall(popOut.chrom))
          /\ FromExactChrom(popOut.tracks[2], FatherCall(popOut.chrom))
          /\ FromExactChrom(popOut.tracks[3], ChildCall(popOut.chrom))
          /\ FromExactChrom(popOut.tracks[4], BackgroundCall(popOut.chrom))

\* the mothers' track for "chr1" over rows stored under "1", "chr1" and
\* "CHR1": the one feature is that of the row under "chr1"
C21_Witness ==
    /\ trkCall = MotherCall(chr \o <<"1">>)
    /\ dbUp
    /\ svTable = { SvRow("m1", "sv2", ShapeA, <<"1">>),
                   SvRow("m1", "sv1", ShapeA, chr \o <<"1">>),
                   SvRow("m1", "sv2", ShapeB, CHR1) }
    /\ Len(trkOut.features) = 1
    /\ trkOut.features[1].name = "sv1"

\* the background track for "chr1" over rows stored under "1", "chr1" and
\* "CHR1"
C21_WitnessBackground ==
    /\ trkCall = BackgroundCall(chr \o <<"1">>)
    /\ dbUp
    /\ bgTable = { BgRow("sv2", ShapeA, <<"1">>, PopCEU),
                   BgRow("sv1", ShapeA, chr \o <<"1">>, PopCEU),
                   BgRow("sv2", ShapeB, CHR1, PopYRI) }
    /\ Len(trkOut.features) = 1
    /\ trkOut.features[1].name = "sv1"

----------------------------------------------------------------------------
(* Claims about database connections, checked under SpecConnections *)

Occurs(events, e) == Cardinality({i \in 1..Len(events) : events[i] = e})

\* C22: a function that opens a database connection closes it before it
\* returns, on every path, early returns and exception paths included:
\* each connect of a call is followed by a close in the same call.
C22_ConnectionClosedBeforeReturn ==
    connOut.called =>
        \A i \in 1..Len(connOut.events) :
            connOut.events[i] = "connect" =>
                \E j \in (i + 1)..Len(connOut.events) : connOut.events[j] = "close"

----------------------------------------------------------------------------
(* Claims about what the child and background tracks attach to a feature,  *)
(* checked under SpecTracks                                                *)

\* the fetched rows of one SV id
FetchedWithId(id) == {trkRows[i] : i \in {j \in 1..Len(trkRows) : trkRows[j].id = id}}

\* the (pop_code, superpop_code, freq) tuples of a set of rows
PopTuples(rows) == {<<r.pop_code, r.superpop_code, r.freq>> : r \in rows}

HasPopulation(r) == Truthy(r.pop_code) /\ Truthy(r.superpop_code) /\ Truthy(r.freq)

\* the tuples a reader can form from the population labels of a feature
ReadableTuples(extra) ==
    {<<p[2], sp[2], f[2]>> :
        p \in {x \in extra : x[1] = "Pop"},
        sp \in {x \in extra : x[1] = "SuperPop"},
        f \in {x \in extra : x[1] = "Freq"}}

\* C23: for each SV id create_background_track collects the distinct
\* (pop_code, superpop_code, freq) tuples of the records with that id, so
\* that the population a frequency belongs to can be read from the feature.
C23_PopulationTuplesPerSv ==
    (trkCall # NoCall /\ dbUp /\ trkCall.builder = "background") =>
        \A k \in 1..Len(trkOut.features) :
            LET rows == FetchedWithId(trkOut.features[k].name)
            IN  (\A r \in rows : HasPopulation(r)) =>
                    ReadableTuples(trkOut.features[k].description.Extra)
                        = PopTuples(rows)

StatusOf(feature) == feature.description.Extra

\* C24: the status set create_child_track attaches to the feature of an SV
\* id is the union of the flags of all child records with that id: Affected
\* iff some record has affected = 1, Proband iff some record has
\* proband = 1, and no Status part iff no record has either flag.
C24_StatusIsUnionOfFlags ==
    (trkCall # NoCall /\ dbUp /\ trkCall.builder = "child") =>
        \A k \in 1..Len(trkOut.features) :
            LET rows == FetchedWithId(trkOut.features[k].name)
                status == StatusOf(trkOut.features[k])
            IN  /\ status \subseteq {"Affected", "Proband"}
                /\ "Affected" \in status <=> \E r \in rows : r.affected = 1
                /\ "Proband" \in status <=> \E r \in rows : r.proband = 1
                /\ status = {} <=>
                      \A r \in rows : r.affected # 1 /\ r.proband # 1

\* one SV id carried by an affected child, by a proband and, fetched last,
\* by a child with neither flag
C24_Witness ==
    /\ trkCall = ChildCall(<<"1">>)
    /\ dbUp
    /\ Len(trkRows) = 3
    /\ trkRows[1].affected = 1 /\ trkRows[1].proband = 0
    /\ trkRows[2].affected = 0 /\ trkRows[2].proband = 1
    /\ trkRows[3].affected = 0 /\ trkRows[3].proband = 0
    /\ Len(trkOut.features) = 1
    /\ StatusOf(trkOut.features[1]) = {"Affected", "Proband"}

----------------------------------------------------------------------------
(* Claims about the bins of the interaction heatmap, checked under         *)
(* SpecHelpers                                                             *)

\* the point of bin b (from 0) of the c-th chromosome of the call
PointOf(c, b) == hlpOut[(c - 1) * heat_bins + b + 1]

\* the chord sides of the call
CallSides ==
    {hlpCall.chord_data[j].source : j \in 1..Len(hlpCall.chord_data)}
    \cup {hlpCall.chord_data[j].target : j \in 1..Len(hlpCall.chord_data)}

\* how many chords of the call have side s as source, and as target
SideCount(s) ==
    Cardinality({j \in 1..Len(hlpCall.chord_data) : hlpCall.chord_data[j].source = s})
    + Cardinality({j \in 1..Len(hlpCall.chord_data) : hlpCall.chord_data[j].target = s})

\* the midpoint of side s belongs to bin b of width w
MidpointIn(s, b, w) ==
    /\ b * w <= midpoint(s)
    /\ b < heat_bins - 1 => midpoint(s) < (b + 1) * w

RECURSIVE SumOver(_)
SumOver(S) ==
    IF S = {} THEN 0
    ELSE LET s == CHOOSE x \in S : TRUE
         IN  SideCount(s) + SumOver(S \ {s})

\* the endpoints on chrom that the interval of bin b holds
EndpointsIn(chrom, b) ==
    SumOver({s \in CallSides : s.id = chrom /\ MidpointIn(s, b, size_of(chrom) \div heat_bins)})

\* C25: for non-empty chord data generate_interaction_heatmap returns 20
\* bins per chromosome, bin i covering [i*w, (i+1)*w) with w = length // 20;
\* each chord endpoint is counted once, in the bin that holds the midpoint
\* of its interval (bin 19 for midpoints past the last bin), source and
\* target sides independently; every value lies in [0, 1]; for empty chord
\* data the list is empty.
C25_TwentyBinsPerChromosome ==
    hlpCall.fn = "heatmap" =>
        IF hlpCall.chord_data = <<>>
        THEN hlpOut = <<>>
        ELSE /\ Len(hlpOut) = heat_bins * Len(hlpCall.chromosomes)
             /\ \A c \in 1..Len(hlpCall.chromosomes) :
                   \A b \in 0..(heat_bins - 1) :
                      LET chrom == hlpCall.chromosomes[c]
                          w == size_of(chrom) \div heat_bins
                          point == PointOf(c, b)
                      IN  /\ point.block_id = chrom
                          /\ point.start = b * w
                          /\ point.end = (b + 1) * w
                          /\ point.value.den > 0
                          /\ 0 <= point.value.num
                          /\ point.value.num <= point.value.den
                          /\ CountsOf(c)[b] = EndpointsIn(chrom, b)
                          /\ point.value.num = EndpointsIn(chrom, b)

\* an endpoint past the end of bin 19 of chr1, counted in bin 19
C25_Witness ==
    /\ hlpCall.fn = "heatmap"
    /\ hlpCall.chord_data = EndChords
    /\ hlpCall.chromosomes = <<chr1, chr2>>
    /\ midpoint(EndChords[1].source) >= heat_bins * heat_bin_size(chr1)
    /\ PointOf(1, 19).value.num = 1
    /\ PointOf(2, 19).value.num = 1
    /\ PointOf(1, 0).value.num = 0

\* no chord
C25_WitnessEmpty ==
    /\ hlpCall.fn = "heatmap"
    /\ hlpCall.chord_data = <<>>
    /\ hlpOut = <<>>

----------------------------------------------------------------------------
(* Claims about the simulated structural variations, checked under SpecSv *)

Distinct(chromosomes) ==
    \A i \in 1..Len(chromosomes), j \in 1..Len(chromosomes) :
        chromosomes[i] = chromosomes[j] => i = j

AllLong(chromosomes) ==
    \A i \in 1..Len(chromosomes) : size_of(chromosomes[i]) > 10000000

\* min(3n, 20) for n >= 2, and 0 below
ChordsFor(n) == IF n < 2 THEN 0 ELSE IF 3 * n < 20 THEN 3 * n ELSE 20

CrossChromosome(chord_data) ==
    \A k \in 1..Len(chord_data) : chord_data[k].source.id # chord_data[k].target.id

\* C26 as stated: for n distinct chromosomes each longer than 10,000,000 bp
\* generate_sv_data returns exactly min(3n, 20) chords when n >= 2 and none
\* when n < 2, each chord between two different chromosomes.
C26_ChordCount ==
    (svOut.called /\ Distinct(sel) /\ AllLong(sel)) =>
        /\ ~svOut.raised
        /\ Len(svOut.chord_data) = ChordsFor(Len(sel))
        /\ CrossChromosome(svOut.chord_data)

\* C26, amended: the count is min(3n, 20) when sqlite3.connect succeeds;
\* when connecting raises sqlite3.Error the except block leaves the list
\* empty.  Every returned chord joins two different chromosomes.
C26_ChordCountWhenConnected ==
    (svOut.called /\ Distinct(sel) /\ AllLong(sel)) =>
        /\ ~svOut.raised
        /\ Len(svOut.chord_data) = (IF dbUp THEN ChordsFor(Len(sel)) ELSE 0)
        /\ CrossChromosome(svOut.chord_data)

\* seven chromosomes, twenty chords
C26_Witness ==
    /\ svOut.called
    /\ dbUp
    /\ Len(sel) = 7
    /\ Len(svOut.chord_data) = 20
    /\ CrossChromosome(svOut.chord_data)

----------------------------------------------------------------------------
(* Claims about the coordinates get_circos_data emits, checked under       *)
(* SpecIntervals                                                           *)

\* the (chromosome, coordinate) pairs of a data point
Coordinates(type, d) ==
    CASE type = "CHORDS" ->
            {<<d.source.id, d.source.start>>, <<d.source.id, d.source.end>>,
             <<d.target.id, d.target.start>>, <<d.target.id, d.target.end>>}
      [] type = "HIGHLIGHT" -> {<<d.block_id, d.start>>, <<d.block_id, d.end>>}
      [] OTHER -> {<<d.block_id, d.position>>}

\* the coordinate lies within the layout entry of its chromosome
WithinLayout(c) ==
    \E i \in 1..Len(circOut.layout) :
        /\ circOut.layout[i].id = c[1]
        /\ 0 <= c[2]
        /\ c[2] <= circOut.layout[i].len

\* C27: every interval and position get_circos_data emits (chord source and
\* target intervals, highlight regions, histogram positions) lies within
\* [0, len] of the layout entry of its chromosome, for all four data types.
C27_CoordinatesWithinChromosome ==
    (Returns /\ dataType \in DataTypes) =>
        \A t \in 1..Len(circOut.tracks) :
            \A k \in 1..Len(circOut.tracks[t].data) :
                \A c \in Coordinates(circOut.tracks[t].type, circOut.tracks[t].data[k]) :
                    WithinLayout(c)

----------------------------------------------------------------------------
(* Claims about self-interactions, checked under SpecResolver *)

\* C28: generate_gene_interactions_data never emits a chord whose
\* source_gene equals its target_gene, even when the source gene's own id
\* matches a family prefix or is listed among its own partners.
C28_NoSelfChord ==
    resOut.called =>
        \A k \in 1..Len(resOut.chord_data) :
            resOut.chord_data[k].source_gene # resOut.chord_data[k].target_gene

----------------------------------------------------------------------------
(* Navigation: index.py display_page and update_url_from_tab,
   pages/table.py navigate_to_genome_browser,
   components/gene_search.py handle_search_selection.
   A dict is a record, None among dicts is NoneData; a callback runs as one
   step that reads its State when it starts. *)

\* the values of the dcc.Tab children of 'main-tabs'
main_tabs ==
    {"/summary", "/", "/table", "/image1", "/image2", "/image3", "/image4",
     "/network", "/circos", "/family", "/population"}

\* dash.no_update returned for every output of a callback
no_update == [py |-> "no_update"]

\* a page layout: the page function that built it, the selected_gene it was
\* given and the locus it shows
layout(page, selected_gene, locus) ==
    [page |-> page, selected_gene |-> selected_gene, locus |-> locus]

\* "SELECT ... FROM genes WHERE id = ?" and fetchone(); None when there is no
\* such row, when the database file is missing and on sqlite3.Error
get_gene_by_id(gene_id) ==
    IF ~dbUp THEN NoneData
    ELSE IF \E i \in 1..Len(genes) : genes[i].id = gene_id
         THEN genes[CHOOSE i \in 1..Len(genes) :
                        /\ genes[i].id = gene_id
                        /\ \A j \in 1..(i - 1) : genes[j].id # gene_id]
         ELSE NoneData

\* genome_browser.page_layout: the locus is "chrom:x1-x2" when chrom, x1 and
\* x2 are all truthy, and '' otherwise
genome_browser_page_layout(selected_gene) ==
    layout("genome_browser", selected_gene,
           IF /\ selected_gene # NoneData
              /\ "chrom" \in DOMAIN selected_gene
              /\ selected_gene.chrom # <<>>
              /\ has_coordinates(selected_gene)
              /\ selected_gene.x1 # 0
              /\ selected_gene.x2 # 0
           THEN <<selected_gene.chrom, selected_gene.x1, selected_gene.x2>>
           ELSE <<>>)

family_genomes_page_layout(selected_gene) ==
    layout("family_genomes", selected_gene, <<>>)

\* what a callback with the outputs (page-content children, main-tabs value)
\* returns
routed(children, value) == [children |-> children, value |-> value]

display_page(pathname, selected_gene) ==
    IF pathname = "/family"
    THEN routed(family_genomes_page_layout(selected_gene), "/family")
    ELSE IF selected_gene # NoneData /\ pathname = "/"
    THEN LET gene_id == IF "Gene" \in DOMAIN selected_gene
                        THEN selected_gene.Gene ELSE <<>>
         IN  IF gene_id = <<>>
             THEN routed(genome_browser_page_layout(NoneData), "/")
             ELSE IF get_gene_by_id(gene_id) # NoneData
                  THEN routed(genome_browser_page_layout(get_gene_by_id(gene_id)), "/")
                  ELSE routed(genome_browser_page_layout(NoneData), "/")
    ELSE IF pathname = "/table"
    THEN routed(layout("table", NoneData, <<>>), "/table")
    ELSE IF pathname = "/"
    THEN routed(genome_browser_page_layout(NoneData), "/")
    ELSE IF pathname = "/image1"
    THEN routed(layout("image1", NoneData, <<>>), "/image1")
    ELSE IF pathname = "/image2"
    THEN routed(layout("image2", NoneData, <<>>), "/image2")
    ELSE IF pathname = "/image3"
    THEN routed(layout("image3", NoneData, <<>>), "/image3")
    ELSE IF pathname = "/image4"
    THEN routed(layout("image4", NoneData, <<>>), "/image4")
    ELSE IF pathname = "/network"
    THEN routed(layout("network", NoneData, <<>>), "/network")
    ELSE IF pathname = "/circos"
    THEN routed(layout("circos", NoneData, <<>>), "/circos")
    ELSE routed(layout("summary", NoneData, <<>>), "/summary")

\* a variant that leaves the stored gene as it is
update_url_from_tab_KeepGene(tab_value) ==
    [pathname |-> tab_value, selected_gene |-> navGene]

update_url_from_tab(tab_value) ==
    [pathname |-> tab_value, selected_gene |-> NoneData]

\* outputs (selected-gene data, url pathname); the style of the options
\* container, the third output, is left out
navigate_to_genome_browser(n_clicks, gene) ==
    IF n_clicks # 0 /\ gene # <<>>
    THEN [selected_gene |-> [Gene |-> gene], pathname |-> "/"]
    ELSE no_update

\* int() of a value of the dropdown, which are str(i) for the results' indices
int_of == ("0" :> 0) @@ ("1" :> 1) @@ ("2" :> 2) @@ ("3" :> 3)

\* selected_index is "None" for None; genes_data[i] is the record at i + 1
handle_search_selection(selected_index, genes_data) ==
    IF selected_index = "None" \/ genes_data = <<>>
    THEN no_update
    ELSE [selected_gene |->
              genes_data[int_of[selected_index] + 1]
                  @@ [Gene |-> genes_data[int_of[selected_index] + 1].id],
          pathname |-> "/"]

----------------------------------------------------------------------------
(* Navigation inputs *)

\* the pathname the page is loaded with: a tab's, or one no tab has
Pathnames == main_tabs \cup {"/about"}

\* the data-gene of the button: a gene with a locus, one without coordinates,
\* one the store does not hold, and none
ButtonGenes == {FOXE1, BRK1, NOPE, <<>>}

\* the page is loaded: display_page is called once, update_url_from_tab has
\* prevent_initial_call
InitNav ==
    /\ RegistryIdle
    /\ HelpersIdle
    /\ SvIdle
    /\ ConnectionsIdle
    /\ CircosIdle
    /\ svTable = {}
    /\ bgTable = {}
    /\ trkCall = NoCall
    /\ trkRows = <<>>
    /\ trkOut = NoTrack
    /\ popOut = NoTracks
    /\ dbUp \in BOOLEAN
    /\ csvOk = TRUE
    /\ genes = GenesWithNull
    /\ table = <<>>
    /\ sel = <<>>
    /\ resOut = NoResult
    /\ navUrl \in Pathnames
    /\ navGene = NoneData
    /\ navTab = "/summary"
    /\ navPage = NoPage
    /\ navPending = {"display_page"}
    /\ navLast = "none"
    /\ navHist = NoneData

OtherComponentsUnchanged ==
    /\ UNCHANGED regVars
    /\ UNCHANGED trkVars
    /\ UNCHANGED resVars
    /\ UNCHANGED circVars
    /\ UNCHANGED hlpVars
    /\ UNCHANGED connVars
    /\ UNCHANGED svVars

\* a callback wrote an Input of callback cb: whether the framework then
\* requests cb is decided outside the repository, so both outcomes are kept
Requests(done, cb) ==
    \E req \in SUBSET {cb} : navPending' = (navPending \ {done}) \cup req

\* display_page runs on the pathname and the stored gene
DisplayPage ==
    /\ "display_page" \in navPending
    /\ \E out \in {display_page(navUrl, navGene)} :
          /\ navPage' = out.children
          /\ navTab' = out.value
    /\ Requests("display_page", "update_url_from_tab")
    /\ navLast' = "display_page"
    /\ UNCHANGED <<navUrl, navGene, navHist>>
    /\ OtherComponentsUnchanged

\* update_url_from_tab runs because display_page wrote the value of main-tabs
TabValueWritten ==
    /\ "update_url_from_tab" \in navPending
    /\ \E out \in {update_url_from_tab(navTab)} :
          /\ navUrl' = out.pathname
          /\ navGene' = out.selected_gene
    /\ Requests("update_url_from_tab", "display_page")
    /\ navLast' = "update_url_from_tab"
    /\ UNCHANGED <<navTab, navPage, navHist>>
    /\ OtherComponentsUnchanged

\* the user clicks a tab: update_url_from_tab runs on its value
TabClick(tab_value) ==
    /\ navTab' = tab_value
    /\ \E out \in {update_url_from_tab(tab_value)} :
          /\ navUrl' = out.pathname
          /\ navGene' = out.selected_gene
    /\ Requests("none", "display_page")
    /\ navLast' = "update_url_from_tab"
    /\ navHist' = NoneData
    /\ UNCHANGED navPage
    /\ OtherComponentsUnchanged

\* a gene selection callback returned out
GeneSelection(callback, out) ==
    /\ IF out = no_update
       THEN UNCHANGED <<navGene, navUrl, navHist, navPending>>
       ELSE /\ navGene' = out.selected_gene
            /\ navUrl' = out.pathname
            /\ navHist' = out.selected_gene
            /\ Requests("none", "display_page")
    /\ navLast' = callback
    /\ UNCHANGED <<navTab, navPage>>
    /\ OtherComponentsUnchanged

\* the user clicks "view in browser" on the table page
NavigateToGenomeBrowser(n_clicks, gene) ==
    GeneSelection("navigate_to_genome_browser",
                  navigate_to_genome_browser(n_clicks, gene))

\* the user picks a search result
HandleSearchSelection(selected_index, genes_data) ==
    GeneSelection("handle_search_selection",
                  handle_search_selection(selected_index, genes_data))

NextNav ==
    \/ DisplayPage
    \/ TabValueWritten
    \/ \E tab_value \in main_tabs : TabClick(tab_value)
    \/ \E n_clicks \in {0, 1}, gene \in ButtonGenes :
          NavigateToGenomeBrowser(n_clicks, gene)
    \/ \E selected_index \in {"None", "0", "1", "2", "3"},
          genes_data \in {<<>>, genes} :
          HandleSearchSelection(selected_index, genes_data)

SpecNav == InitNav /\ [][NextNav]_vars

----------------------------------------------------------------------------
(* Claims about navigation, checked under SpecNav *)

\* the page function of each tab of the header
page_of_tab ==
    ("/summary" :> "summary") @@ ("/" :> "genome_browser") @@
    ("/table" :> "table") @@ ("/image1" :> "image1") @@
    ("/image2" :> "image2") @@ ("/image3" :> "image3") @@
    ("/image4" :> "image4") @@ ("/network" :> "network") @@
    ("/circos" :> "circos") @@ ("/family" :> "family_genomes") @@
    ("/population" :> "population_svs")

\* C29: for every tab value of the header's main-tabs, display_page renders
\* that tab's own page and returns the same tab value; no header tab falls
\* through to the default summary page.
C29_EveryTabRoutesToItsPage ==
    (navLast = "display_page" /\ navUrl \in main_tabs) =>
        /\ navPage.page = page_of_tab[navUrl]
        /\ navTab = navUrl

\* C30: update_url_from_tab leaves selected-gene None on each tab click, and
\* whenever display_page has rendered the genome browser with a gene locus,
\* the gene shown is the one a gene selection stored after the most recent
\* tab click.
C30_GeneStoredSinceLastTabClick ==
    /\ navLast = "update_url_from_tab" => navGene = NoneData
    /\ (/\ navLast = "display_page"
        /\ navPage.page = "genome_browser"
        /\ navPage.locus # <<>>) =>
           /\ navHist # NoneData
           /\ navPage.selected_gene.id = navHist.Gene

\* a gene was selected and the genome browser shows its locus
C30_Witness ==
    /\ navLast = "display_page"
    /\ navPage.page = "genome_browser"
    /\ navPage.locus = <<chr1, 500000, 600000>>
    /\ navHist # NoneData
    /\ navHist.Gene = FOXE1

\* display_page has rendered the genome browser for "/" with no gene stored
\* since the latest tab click, and shows no locus
C30_WitnessAfterTabClick ==
    /\ navLast = "display_page"
    /\ navUrl = "/"
    /\ navPage.page = "genome_browser"
    /\ navPage.locus = <<>>
    /\ navHist = NoneData
    /\ navGene = NoneData

====
